---- MODULE Spec2Model ----
(***************************************************************************)
(* Streaming playback engine of hermeneia (src-tauri/src/audio/playback.rs) *)
(* as a state machine.  Four sequential processes share the atomics of     *)
(* SharedPlaybackState and one SPSC ring buffer:                           *)
(*   - the facade (AudioPlayer methods; callers are serialised by the      *)
(*     Mutex<AudioPlayer> of lib.rs, so one call runs at a time),          *)
(*   - the decoder thread (run_decoder),                                   *)
(*   - the playback thread (run_playback_stream, outer loop),              *)
(*   - the device callback (the closure given to build_output_stream).     *)
(* Every SeqCst load/store and every ring-buffer call is one step; local   *)
(* computation is folded into the adjacent shared access.                  *)
(***************************************************************************)
EXTENDS Integers, Sequences, FiniteSets, TLC

\* ------------------------------------------------------------------ bounds
\* Capacity of the ring buffer in samples (480000 in the program, scaled down).
RING_BUFFER_SIZE == 3
\* Frames of the audio file that probes and decodes.
TotalFrames == 3
\* data.len() of one device callback, in samples.
BufLen == 2
\* play_file() and seek() calls per run, taken together.
MaxCalls == 3
\* The same budget in the specification with fairness.
MaxLiveCalls == 2

\* Largest time handed to the trim functions, in units of 1/TimeDen seconds.
MaxTime == 4
\* Largest number of samples, sample rate and channel count of an AudioData.
MaxSamples == 4
MaxRate == 2
MaxChannels == 2
\* Largest frame number held by the state that get_state() reads on its own.
MaxFrameArg == 3

\* ------------------------------------------------------------ the inputs
\* The file of a session: 1 Hz, stereo, one frame per packet.
FileRate == 1
FileChannels == 2
PacketFrames == 1
\* seek() arguments in half seconds (time_seconds = k / TimeDen): 1.5 s, and
\* the duration of the file.
TimeDen == 2
SeekTimes == {3, TimeDen * TotalFrames}
\* Frames whose packet the codec rejects (a corrupt packet).
CorruptFrames == {0}
\* Paths handed to play_file: one that probes, one that does not.
Paths == {"ok.wav", "bad.wav"}

\* Silence written by the callback, and the content of an output slot that the
\* current invocation has not written.
Silence == [i |-> -1, e |-> -1]
Unwritten == [i |-> -2, e |-> -2]

VARIABLES
    \* SharedPlaybackState
    is_playing, current_frame, total_frames, sample_rate, channels,
    should_stop, seek_to_frame, seek_pending, buffer_flush_pending,
    \* AudioPlayer
    decoder_thread, playback_thread, loaded_file,
    \* the facade call in progress
    fpc, f_op, f_path, f_current, f_result,
    \* HeapRb<f32>: the occupied samples, oldest first
    ring,
    \* run_decoder
    dpc, pos, seek_frame, samples, written,
    \* run_playback_stream and its callback
    ppc, cpc, samples_consumed, to_skip, to_read, data,
    \* the Mutex around the ring-buffer consumer: who holds its guard
    consumer_guard,
    \* history: what the claims speak about
    epoch, landed, seek_seq, serviced_seq, calls_left, paused,
    \* history: the decoder has set buffer_flush_pending and the callback has
    \* not read the flag as set since; the invocation in progress started
    \* while that was so; the branch it took
    flush_owed, cb_owed, cb_branch,
    \* history: the facade call that returned last was stop()
    stopped,
    \* a function applied on its own: the call with its arguments, its result
    call, ret

shared == <<is_playing, current_frame, total_frames, sample_rate, channels,
            should_stop, seek_to_frame, seek_pending, buffer_flush_pending>>
player == <<decoder_thread, playback_thread, loaded_file>>
facade == <<fpc, f_op, f_path, f_current, f_result>>
decoder == <<dpc, pos, seek_frame, samples, written>>
playback == <<ppc, cpc, samples_consumed, to_skip, to_read, data, consumer_guard>>
history == <<epoch, landed, seek_seq, serviced_seq, calls_left, paused, flush_owed, cb_owed,
             cb_branch, stopped>>
applied == <<call, ret>>
vars == <<shared, player, facade, ring, decoder, playback, history, applied>>

\* ---------------------------------------------------------------- helpers
Min(a, b) == IF a <= b THEN a ELSE b

\* `x as u64` of a float: truncation toward zero, negatives saturate to 0.
AsU64(num, den) == IF num <= 0 THEN 0 ELSE num \div den

\* The interleaved samples of one decoded packet starting at frame p, tagged
\* with the number of seeks the decode session had performed when it decoded.
BlockOf(p, ep, ch, frames) ==
    [k \in 1..(frames * ch) |-> [i |-> p * ch + (k - 1), e |-> ep]]

\* The same for a file whose packets hold PacketFrames frames.
Block(p, ep, ch) == BlockOf(p, ep, ch, PacketFrames)

Zeros(n) == [k \in 1..n |-> Silence]

DecoderAlive == dpc \notin {"none", "done"}
PlaybackAlive == ppc \notin {"none", "done"}
CallbackRunning == cpc # "idle"

\* SharedPlaybackState::new
NewState ==
    /\ is_playing = FALSE
    /\ current_frame = 0
    /\ total_frames = 0
    /\ sample_rate = 44100
    /\ channels = 2
    /\ should_stop = FALSE
    /\ seek_to_frame = 0
    /\ seek_pending = FALSE
    /\ buffer_flush_pending = FALSE

\* AudioPlayer::new: no handle, no thread, no callback, no call in progress
NoThreads ==
    /\ decoder_thread = "None"
    /\ playback_thread = "None"
    /\ loaded_file = "None"
    /\ fpc = "idle"
    /\ f_op = "none"
    /\ f_path = "None"
    /\ f_current = FALSE
    /\ f_result = "none"
    /\ ring = <<>>
    /\ dpc = "none"
    /\ pos = 0
    /\ seek_frame = 0
    /\ samples = <<>>
    /\ written = 0
    /\ ppc = "none"
    /\ cpc = "idle"
    /\ samples_consumed = 0
    /\ to_skip = 0
    /\ to_read = 0
    /\ data = <<>>
    /\ consumer_guard = "None"
    /\ epoch = 0
    /\ landed = -1
    /\ seek_seq = 0
    /\ serviced_seq = 0
    /\ paused = FALSE
    /\ flush_owed = FALSE
    /\ cb_owed = FALSE
    /\ cb_branch = "none"
    /\ stopped = FALSE

\* AudioPlayer::new
NewPlayer == NewState /\ NoThreads

\* No function is being applied on its own.
NoCall == call = [fn |-> "none"] /\ ret = [tag |-> "none"]

Init == NewPlayer /\ calls_left = MaxCalls /\ NoCall

\* The same player with the smaller budget of the liveness check.
LiveInit == NewPlayer /\ calls_left = MaxLiveCalls /\ NoCall

\* ------------------------------------------------------------- the facade
\* What a step of one process leaves alone.
OnlyFacade == UNCHANGED <<ring, decoder, playback, applied>>

\* pause as it would be if it also cancelled a pending seek.
PauseClearsSeek ==
    /\ fpc = "idle"
    /\ is_playing' = FALSE
    /\ seek_pending' = FALSE
    /\ f_op' = "none"
    /\ paused' = TRUE
    /\ stopped' = FALSE
    /\ UNCHANGED <<current_frame, total_frames, sample_rate, channels, should_stop,
                   seek_to_frame, buffer_flush_pending, player,
                   fpc, f_path, f_current, f_result, epoch, landed, seek_seq,
                   serviced_seq, calls_left, flush_owed, cb_owed, cb_branch>>
    /\ UNCHANGED <<ring, decoder, playback, applied>>

\* AudioPlayer::pause
Pause ==
    /\ fpc = "idle"
    /\ is_playing' = FALSE
    /\ f_op' = "none"
    /\ paused' = TRUE
    /\ stopped' = FALSE
    /\ UNCHANGED <<current_frame, total_frames, sample_rate, channels, should_stop,
                   seek_to_frame, seek_pending, buffer_flush_pending, player,
                   fpc, f_path, f_current, f_result, epoch, landed, seek_seq,
                   serviced_seq, calls_left, flush_owed, cb_owed, cb_branch>>
    /\ OnlyFacade

\* AudioPlayer::resume
Resume ==
    /\ fpc = "idle"
    /\ is_playing' = TRUE
    /\ f_op' = "none"
    /\ paused' = FALSE
    /\ stopped' = FALSE
    /\ UNCHANGED <<current_frame, total_frames, sample_rate, channels, should_stop,
                   seek_to_frame, seek_pending, buffer_flush_pending, player,
                   fpc, f_path, f_current, f_result, epoch, landed, seek_seq,
                   serviced_seq, calls_left, flush_owed, cb_owed, cb_branch>>
    /\ OnlyFacade

\* AudioPlayer::toggle, the load of is_playing
ToggleLoad ==
    /\ fpc = "idle"
    /\ f_current' = is_playing
    /\ fpc' = "toggle_store"
    /\ f_op' = "toggle"
    /\ paused' = FALSE
    /\ stopped' = FALSE
    /\ UNCHANGED <<shared, player, f_path, f_result, epoch, landed, seek_seq,
                   serviced_seq, calls_left, flush_owed, cb_owed, cb_branch>>
    /\ OnlyFacade

\* AudioPlayer::toggle, the store of the negation
ToggleStore ==
    /\ fpc = "toggle_store"
    /\ is_playing' = ~f_current
    /\ f_current' = FALSE
    /\ fpc' = "idle"
    /\ f_op' = "none"
    /\ UNCHANGED <<current_frame, total_frames, sample_rate, channels, should_stop,
                   seek_to_frame, seek_pending, buffer_flush_pending, player,
                   f_path, f_result, history>>
    /\ OnlyFacade

\* AudioPlayer::seek, up to the store of seek_to_frame; it looks at no thread
\* handle and stores with or without a session.
SeekStoreFrame(k) ==
    /\ fpc = "idle"
    /\ calls_left > 0
    /\ seek_to_frame' = AsU64(k * sample_rate, TimeDen)
    /\ fpc' = "seek_pending"
    /\ f_op' = "seek"
    /\ calls_left' = calls_left - 1
    /\ seek_seq' = seek_seq + 1
    /\ stopped' = FALSE
    /\ UNCHANGED <<is_playing, current_frame, total_frames, sample_rate, channels,
                   should_stop, seek_pending, buffer_flush_pending, player,
                   f_path, f_current, f_result, epoch, landed, serviced_seq, paused, flush_owed, cb_owed,
                   cb_branch>>
    /\ OnlyFacade

\* AudioPlayer::seek, the store of seek_pending
SeekStorePending ==
    /\ fpc = "seek_pending"
    /\ seek_pending' = TRUE
    /\ fpc' = "idle"
    /\ f_op' = "none"
    /\ UNCHANGED <<is_playing, current_frame, total_frames, sample_rate, channels,
                   should_stop, seek_to_frame, buffer_flush_pending, player,
                   f_path, f_current, f_result, history>>
    /\ OnlyFacade

\* AudioPlayer::stop is entered by a caller ...
StopCall ==
    /\ fpc = "idle"
    /\ fpc' = "stop_set"
    /\ f_op' = "stop"
    /\ UNCHANGED <<shared, player, f_path, f_current, f_result, history>>
    /\ OnlyFacade

\* ... or by play_file, which stops the previous session first.
PlayCall(path) ==
    /\ fpc = "idle"
    /\ calls_left > 0
    /\ fpc' = "stop_set"
    /\ f_op' = "play"
    /\ f_path' = path
    /\ f_result' = "none"
    /\ calls_left' = calls_left - 1
    /\ paused' = FALSE
    /\ stopped' = FALSE
    /\ UNCHANGED <<shared, player, f_current, epoch, landed, seek_seq,
                   serviced_seq, flush_owed, cb_owed, cb_branch>>
    /\ OnlyFacade

\* stop as it would be if it flipped should_stop instead of setting it.
StopSetStopFlip ==
    /\ fpc = "stop_set"
    /\ should_stop' = ~should_stop
    /\ fpc' = "stop_clear"
    /\ UNCHANGED <<is_playing, current_frame, total_frames, sample_rate, channels,
                   seek_to_frame, seek_pending, buffer_flush_pending, player,
                   f_op, f_path, f_current, f_result, history>>
    /\ UNCHANGED <<ring, decoder, playback, applied>>

\* stop: should_stop.store(true)
StopSetStop ==
    /\ fpc = "stop_set"
    /\ should_stop' = TRUE
    /\ fpc' = "stop_clear"
    /\ UNCHANGED <<is_playing, current_frame, total_frames, sample_rate, channels,
                   seek_to_frame, seek_pending, buffer_flush_pending, player,
                   f_op, f_path, f_current, f_result, history>>
    /\ OnlyFacade

\* stop: is_playing.store(false)
StopClearPlaying ==
    /\ fpc = "stop_clear"
    /\ is_playing' = FALSE
    /\ fpc' = "stop_join_decoder"
    /\ UNCHANGED <<current_frame, total_frames, sample_rate, channels, should_stop,
                   seek_to_frame, seek_pending, buffer_flush_pending, player,
                   f_op, f_path, f_current, f_result, history>>
    /\ OnlyFacade

\* stop as it would be if the decoder handle were dropped, not joined.
StopJoinDecoderNoWait ==
    /\ fpc = "stop_join_decoder"
    /\ decoder_thread' = "None"
    /\ fpc' = "stop_join_playback"
    /\ UNCHANGED <<shared, playback_thread, loaded_file, f_op, f_path, f_current,
                   f_result, history>>
    /\ UNCHANGED <<ring, decoder, playback, applied>>

\* stop: take the decoder handle and join it (join returns once the thread ended)
StopJoinDecoder ==
    /\ fpc = "stop_join_decoder"
    /\ decoder_thread = "Some" => dpc = "done"
    /\ decoder_thread' = "None"
    /\ fpc' = "stop_join_playback"
    /\ UNCHANGED <<shared, playback_thread, loaded_file, f_op, f_path, f_current,
                   f_result, history>>
    /\ OnlyFacade

\* stop as it would be if the playback handle were dropped, not joined.
StopJoinPlaybackNoWait ==
    /\ fpc = "stop_join_playback"
    /\ playback_thread' = "None"
    /\ fpc' = "stop_reset"
    /\ UNCHANGED <<shared, decoder_thread, loaded_file, f_op, f_path, f_current,
                   f_result, history>>
    /\ UNCHANGED <<ring, decoder, playback, applied>>

\* stop: take the playback handle and join it
StopJoinPlayback ==
    /\ fpc = "stop_join_playback"
    /\ playback_thread = "Some" => ppc = "done"
    /\ playback_thread' = "None"
    /\ fpc' = "stop_reset"
    /\ UNCHANGED <<shared, decoder_thread, loaded_file, f_op, f_path, f_current,
                   f_result, history>>
    /\ OnlyFacade

\* stop as it would be if it re-armed the player by clearing should_stop.
StopResetFrameClearsStop ==
    /\ fpc = "stop_reset"
    /\ current_frame' = 0
    /\ should_stop' = FALSE
    /\ fpc' = IF f_op = "play" THEN "play_probe" ELSE "idle"
    /\ stopped' = (f_op = "stop")
    /\ UNCHANGED <<is_playing, total_frames, sample_rate, channels,
                   seek_to_frame, seek_pending, buffer_flush_pending, player,
                   f_op, f_path, f_current, f_result, epoch, landed, seek_seq,
                   serviced_seq, calls_left, paused, flush_owed, cb_owed, cb_branch>>
    /\ UNCHANGED <<ring, decoder, playback, applied>>

\* stop: current_frame.store(0), then return to the caller or into play_file
StopResetFrame ==
    /\ fpc = "stop_reset"
    /\ current_frame' = 0
    /\ fpc' = IF f_op = "play" THEN "play_probe" ELSE "idle"
    /\ stopped' = (f_op = "stop")
    /\ UNCHANGED <<is_playing, total_frames, sample_rate, channels, should_stop,
                   seek_to_frame, seek_pending, buffer_flush_pending, player,
                   f_op, f_path, f_current, f_result, epoch, landed, seek_seq,
                   serviced_seq, calls_left, paused, flush_owed, cb_owed, cb_branch>>
    /\ OnlyFacade

\* probe_audio_file: the metadata of the file, or an error for a path that
\* cannot be opened or probed (FileOpen, DecodeFailed).
probe_audio_file(path) ==
    IF path = "ok.wav"
    THEN [ok |-> TRUE, sample_rate |-> FileRate, channels |-> FileChannels,
          total_frames |-> TotalFrames]
    ELSE [ok |-> FALSE, sample_rate |-> 0, channels |-> 0, total_frames |-> 0]

\* play_file as it would be if the error of the probe were logged, not
\* returned.
PlayProbeSwallow ==
    /\ fpc = "play_probe"
    /\ loaded_file' = f_path
    /\ fpc' = "play_meta"
    /\ UNCHANGED <<shared, decoder_thread, playback_thread, f_op, f_path,
                   f_current, f_result, history>>
    /\ UNCHANGED <<ring, decoder, playback, applied>>

\* play_file: remember the path, probe, and return the error with `?`
PlayProbe ==
    /\ fpc = "play_probe"
    /\ loaded_file' = f_path
    /\ IF probe_audio_file(f_path).ok
       THEN /\ fpc' = "play_meta"
            /\ f_result' = f_result
       ELSE /\ fpc' = "idle"
            /\ f_result' = "Err"
    /\ UNCHANGED <<shared, decoder_thread, playback_thread, f_op, f_path,
                   f_current, history>>
    /\ OnlyFacade

\* play_file as it would be if the frame count were left for the decoder
\* thread to fill in.
PlayStoreMetaNoFrames ==
    /\ fpc = "play_meta"
    /\ sample_rate' = probe_audio_file(f_path).sample_rate
    /\ channels' = probe_audio_file(f_path).channels
    /\ fpc' = "play_reset"
    /\ UNCHANGED <<is_playing, current_frame, total_frames, should_stop,
                   seek_to_frame, seek_pending, buffer_flush_pending, player,
                   f_op, f_path, f_current, f_result, history>>
    /\ UNCHANGED <<ring, decoder, playback, applied>>

\* play_file as it would be if the sample rate were left for the playback
\* thread to find out.
PlayStoreMetaKeepRate ==
    /\ fpc = "play_meta"
    /\ channels' = probe_audio_file(f_path).channels
    /\ total_frames' = probe_audio_file(f_path).total_frames
    /\ fpc' = "play_reset"
    /\ UNCHANGED <<is_playing, current_frame, sample_rate, should_stop,
                   seek_to_frame, seek_pending, buffer_flush_pending, player,
                   f_op, f_path, f_current, f_result, history>>
    /\ UNCHANGED <<ring, decoder, playback, applied>>

\* play_file: store the metadata before any thread is started
PlayStoreMeta ==
    /\ fpc = "play_meta"
    /\ sample_rate' = probe_audio_file(f_path).sample_rate
    /\ channels' = probe_audio_file(f_path).channels
    /\ total_frames' = probe_audio_file(f_path).total_frames
    /\ fpc' = "play_reset"
    /\ UNCHANGED <<is_playing, current_frame, should_stop, seek_to_frame,
                   seek_pending, buffer_flush_pending, player, f_op, f_path,
                   f_current, f_result, history>>
    /\ OnlyFacade

\* The fields play_file resets under "Reset state".
PlayResetFields ==
    /\ should_stop' = FALSE
    /\ current_frame' = 0
    /\ seek_pending' = FALSE
    /\ is_playing' = TRUE
    /\ UNCHANGED <<total_frames, sample_rate, channels, seek_to_frame,
                   buffer_flush_pending>>

\* play_file: reset the control state of the previous session
PlayReset ==
    /\ fpc = "play_reset"
    /\ PlayResetFields
    /\ fpc' = "play_ring"
    /\ seek_seq' = 0
    /\ serviced_seq' = 0
    /\ UNCHANGED <<player, f_op, f_path, f_current, f_result, epoch, landed,
                   calls_left, paused, stopped, flush_owed, cb_owed, cb_branch>>
    /\ OnlyFacade

\* play_file: HeapRb::new and split
PlayCreateRing ==
    /\ fpc = "play_ring"
    /\ ring' = <<>>
    /\ fpc' = "play_spawn_decoder"
    /\ epoch' = 0
    /\ landed' = -1
    /\ UNCHANGED <<shared, player, f_op, f_path, f_current, f_result, decoder,
                   playback, applied, seek_seq, serviced_seq, calls_left, paused, stopped,
                   flush_owed, cb_owed, cb_branch>>

\* play_file: thread::spawn(run_decoder)
PlaySpawnDecoder ==
    /\ fpc = "play_spawn_decoder"
    /\ dpc' = "setup"
    /\ pos' = 0
    /\ seek_frame' = 0
    /\ samples' = <<>>
    /\ written' = 0
    /\ fpc' = "play_spawn_playback"
    /\ UNCHANGED <<shared, player, f_op, f_path, f_current, f_result, ring,
                   playback, history, applied>>

\* play_file: thread::spawn(run_playback_stream)
PlaySpawnPlayback ==
    /\ fpc = "play_spawn_playback"
    /\ ppc' = "setup"
    /\ fpc' = "play_handles"
    /\ UNCHANGED <<shared, player, f_op, f_path, f_current, f_result, ring,
                   decoder, cpc, samples_consumed, to_skip, to_read, data,
                   consumer_guard, history, applied>>

\* play_file: keep both join handles and return Ok
PlayStoreHandles ==
    /\ fpc = "play_handles"
    /\ decoder_thread' = "Some"
    /\ playback_thread' = "Some"
    /\ f_result' = "Ok"
    /\ fpc' = "idle"
    /\ UNCHANGED <<shared, loaded_file, f_op, f_path, f_current, history>>
    /\ OnlyFacade

\* get_state as it would be without the check of the sample rate.
get_state_unchecked ==
    <<is_playing, <<current_frame, sample_rate>>, <<total_frames, sample_rate>>>>

\* AudioPlayer::get_state: (is_playing, current_time, duration), the two times
\* as exact fractions <<numerator, denominator>> of a second.
get_state ==
    <<is_playing,
      IF sample_rate > 0 THEN <<current_frame, sample_rate>> ELSE <<0, 1>>,
      IF sample_rate > 0 THEN <<total_frames, sample_rate>> ELSE <<0, 1>>>>

\* ------------------------------------------------------ the decoder thread
OnlyDecoder == UNCHANGED <<player, facade, playback, applied>>

\* run_decoder up to the main loop: open, probe, find the track, make the
\* codec; any of them may fail, and the thread then ends with the error.
DecoderSetup ==
    /\ dpc = "setup"
    /\ \/ dpc' = "head"
       \/ dpc' = "done"
    /\ UNCHANGED <<shared, ring, pos, seek_frame, samples, written, history>>
    /\ OnlyDecoder

\* loop head: should_stop.load
DecoderCheckStop ==
    /\ dpc = "head"
    /\ dpc' = IF should_stop THEN "done" ELSE "check_seek"
    /\ UNCHANGED <<shared, ring, pos, seek_frame, samples, written, history>>
    /\ OnlyDecoder

\* seek_pending.load
DecoderCheckSeek ==
    /\ dpc = "check_seek"
    /\ dpc' = IF seek_pending THEN "load_seek" ELSE "next_packet"
    /\ UNCHANGED <<shared, ring, pos, seek_frame, samples, written, history>>
    /\ OnlyDecoder

\* The frame an accurate seek lands on: the start of the packet that holds the
\* target (the conversion of the frame to a Time and back is exact at FileRate).
SeekLandingOf(frame, frames) == (frame \div frames) * frames

\* The same for a file whose packets hold PacketFrames frames.
SeekLanding(frame) == SeekLandingOf(frame, PacketFrames)

\* The seek as it would be if a rejected seek ended the thread.
DecoderSeekFatal ==
    /\ dpc = "load_seek"
    /\ seek_frame' = seek_to_frame
    /\ serviced_seq' = seek_seq
    /\ IF seek_to_frame < TotalFrames
       THEN /\ pos' = SeekLanding(seek_to_frame)
            /\ landed' = SeekLanding(seek_to_frame)
            /\ epoch' = epoch + 1
            /\ dpc' = "store_current"
       ELSE /\ dpc' = "done"
            /\ UNCHANGED <<pos, landed, epoch>>
    /\ UNCHANGED <<shared, ring, samples, written, seek_seq, calls_left, paused, stopped, flush_owed, cb_owed, cb_branch>>
    /\ UNCHANGED <<player, facade, playback, applied>>

\* seek_to_frame.load, then format.seek(SeekMode::Accurate, ..) on the
\* thread's own decode session: Ok(actual_ts) for a target inside the stream,
\* Err for one outside it.
DecoderSeekIn(frames) ==
    /\ dpc = "load_seek"
    /\ seek_frame' = seek_to_frame
    /\ serviced_seq' = seek_seq
    /\ IF seek_to_frame < TotalFrames
       THEN /\ pos' = SeekLandingOf(seek_to_frame, frames)
            /\ landed' = SeekLandingOf(seek_to_frame, frames)
            /\ epoch' = epoch + 1
            /\ dpc' = "store_current"
       ELSE /\ dpc' = "clear_seek"
            /\ UNCHANGED <<pos, landed, epoch>>
    /\ UNCHANGED <<shared, ring, samples, written, seek_seq, calls_left, paused, stopped, flush_owed, cb_owed, cb_branch>>
    /\ OnlyDecoder

\* The seek in a file whose packets hold PacketFrames frames.
DecoderSeek == DecoderSeekIn(PacketFrames)

\* current_frame.store(seeked.actual_ts)
DecoderStoreCurrent ==
    /\ dpc = "store_current"
    /\ current_frame' = pos
    /\ dpc' = "store_flush"
    /\ UNCHANGED <<is_playing, total_frames, sample_rate, channels, should_stop,
                   seek_to_frame, seek_pending, buffer_flush_pending, ring, pos,
                   seek_frame, samples, written, history>>
    /\ OnlyDecoder

\* buffer_flush_pending.store(true); decoder.reset()
DecoderStoreFlush ==
    /\ dpc = "store_flush"
    /\ buffer_flush_pending' = TRUE
    /\ flush_owed' = TRUE
    /\ dpc' = "clear_seek"
    /\ UNCHANGED <<is_playing, current_frame, total_frames, sample_rate, channels,
                   should_stop, seek_to_frame, seek_pending, ring, pos,
                   seek_frame, samples, written, epoch, landed, seek_seq,
                   serviced_seq, calls_left, paused, cb_owed, cb_branch, stopped>>
    /\ OnlyDecoder

\* seek_pending.store(false)
DecoderClearSeek ==
    /\ dpc = "clear_seek"
    /\ seek_pending' = FALSE
    /\ dpc' = "next_packet"
    /\ UNCHANGED <<is_playing, current_frame, total_frames, sample_rate, channels,
                   should_stop, seek_to_frame, buffer_flush_pending, ring, pos,
                   seek_frame, samples, written, history>>
    /\ OnlyDecoder

\* The end of the stream as it would be if the decoder also raised
\* should_stop there.
DecoderNextPacketEndStops ==
    /\ dpc = "next_packet"
    /\ \/ /\ pos >= TotalFrames
          /\ is_playing' = FALSE
          /\ should_stop' = TRUE
          /\ dpc' = "done"
          /\ UNCHANGED <<pos, samples, written>>
       \/ /\ pos < TotalFrames
          /\ pos \notin CorruptFrames
          /\ pos' = pos + PacketFrames
          /\ samples' = Block(pos, epoch, FileChannels)
          /\ written' = 0
          /\ dpc' = "push_check_stop"
          /\ UNCHANGED <<is_playing, should_stop>>
       \/ /\ pos < TotalFrames
          /\ pos \in CorruptFrames
          /\ pos' = pos + PacketFrames
          /\ dpc' = "head"
          /\ UNCHANGED <<is_playing, should_stop, samples, written>>
    /\ UNCHANGED <<current_frame, total_frames, sample_rate, channels,
                   seek_to_frame, seek_pending, buffer_flush_pending, ring,
                   seek_frame, history>>
    /\ UNCHANGED <<player, facade, playback, applied>>

\* The decode as it would be if a decode error ended the thread.
DecoderNextPacketErrorFatal ==
    /\ dpc = "next_packet"
    /\ \/ /\ pos >= TotalFrames
          /\ is_playing' = FALSE
          /\ dpc' = "done"
          /\ UNCHANGED <<pos, samples, written>>
       \/ /\ pos < TotalFrames
          /\ pos \notin CorruptFrames
          /\ pos' = pos + PacketFrames
          /\ samples' = Block(pos, epoch, FileChannels)
          /\ written' = 0
          /\ dpc' = "push_check_stop"
          /\ UNCHANGED is_playing
       \/ /\ pos < TotalFrames
          /\ pos \in CorruptFrames
          /\ pos' = pos + PacketFrames
          /\ dpc' = "done"
          /\ UNCHANGED <<is_playing, samples, written>>
    /\ UNCHANGED <<current_frame, total_frames, sample_rate, channels, should_stop,
                   seek_to_frame, seek_pending, buffer_flush_pending, ring,
                   seek_frame, history>>
    /\ UNCHANGED <<player, facade, playback, applied>>

\* format.next_packet and decoder.decode.  No packet is left: is_playing is
\* cleared and the thread ends.  Otherwise the packet is decoded into a block
\* of interleaved samples, or the codec rejects it (a decode error) and the
\* loop continues with the next one.
DecoderNextPacketOf(frames, corrupt) ==
    /\ dpc = "next_packet"
    /\ \/ /\ pos >= TotalFrames
          /\ is_playing' = FALSE
          /\ dpc' = "done"
          /\ UNCHANGED <<pos, samples, written>>
       \/ /\ pos < TotalFrames
          /\ pos \notin corrupt
          /\ pos' = pos + Min(frames, TotalFrames - pos)
          /\ samples' = BlockOf(pos, epoch, FileChannels,
                                Min(frames, TotalFrames - pos))
          /\ written' = 0
          /\ dpc' = "push_check_stop"
          /\ UNCHANGED is_playing
       \/ /\ pos < TotalFrames
          /\ pos \in corrupt
          /\ pos' = pos + Min(frames, TotalFrames - pos)
          /\ dpc' = "head"
          /\ UNCHANGED <<is_playing, samples, written>>
    /\ UNCHANGED <<current_frame, total_frames, sample_rate, channels, should_stop,
                   seek_to_frame, seek_pending, buffer_flush_pending, ring,
                   seek_frame, history>>
    /\ OnlyDecoder

\* The next packet of a file whose packets hold PacketFrames frames and whose
\* packets at CorruptFrames do not decode.
DecoderNextPacket == DecoderNextPacketOf(PacketFrames, CorruptFrames)

\* The push loop as it would be without the should_stop check.
DecoderPushCheckStopBlind ==
    /\ dpc = "push_check_stop"
    /\ IF written >= Len(samples)
       THEN /\ dpc' = "head"
            /\ samples' = <<>>
            /\ written' = 0
       ELSE /\ dpc' = "push_check_seek"
            /\ UNCHANGED <<samples, written>>
    /\ UNCHANGED <<shared, ring, pos, seek_frame, history>>
    /\ UNCHANGED <<player, facade, playback, applied>>

\* while written < samples.len(): should_stop.load
DecoderPushCheckStop ==
    /\ dpc = "push_check_stop"
    /\ IF written >= Len(samples) \/ should_stop
       THEN /\ dpc' = "head"
            /\ samples' = <<>>
            /\ written' = 0
       ELSE /\ dpc' = "push_check_seek"
            /\ UNCHANGED <<samples, written>>
    /\ UNCHANGED <<shared, ring, pos, seek_frame, history>>
    /\ OnlyDecoder

\* The push loop as it would be without the seek_pending check.
DecoderPushCheckSeekBlind ==
    /\ dpc = "push_check_seek"
    /\ dpc' = "push"
    /\ UNCHANGED <<samples, written>>
    /\ UNCHANGED <<shared, ring, pos, seek_frame, history>>
    /\ UNCHANGED <<player, facade, playback, applied>>

\* ... || seek_pending.load
DecoderPushCheckSeek ==
    /\ dpc = "push_check_seek"
    /\ IF seek_pending
       THEN /\ dpc' = "head"
            /\ samples' = <<>>
            /\ written' = 0
       ELSE /\ dpc' = "push"
            /\ UNCHANGED <<samples, written>>
    /\ UNCHANGED <<shared, ring, pos, seek_frame, history>>
    /\ OnlyDecoder

\* The push as it would be into a ring buffer that keeps one slot free to tell
\* full from empty.
DecoderPushKeepsOneFree(capacity) ==
    /\ dpc = "push"
    /\ LET n == Min(Len(samples) - written, capacity - 1 - Len(ring))
       IN /\ ring' = ring \o SubSeq(samples, written + 1, written + n)
          /\ written' = written + n
    /\ dpc' = "push_check_stop"
    /\ UNCHANGED <<shared, pos, seek_frame, samples, history>>
    /\ UNCHANGED <<player, facade, playback, applied>>

\* producer.push_slice(&samples[written..]) into a buffer of the given
\* capacity.
DecoderPushInto(capacity) ==
    /\ dpc = "push"
    /\ LET n == Min(Len(samples) - written, capacity - Len(ring))
       IN /\ ring' = ring \o SubSeq(samples, written + 1, written + n)
          /\ written' = written + n
    /\ dpc' = "push_check_stop"
    /\ UNCHANGED <<shared, pos, seek_frame, samples, history>>
    /\ OnlyDecoder

\* producer.push_slice(&samples[written..]): as many as fit; none when the
\* buffer is full, and the loop then sleeps 10 ms and tries again.
DecoderPush == DecoderPushInto(RING_BUFFER_SIZE)

\* ----------------------------------------------------- the playback thread
OnlyPlayback == UNCHANGED <<player, facade, decoder, applied>>

\* run_playback_stream up to stream.play(): the device, the rate search and
\* the stream; a failure ends the thread with the error and no stream.
PlaybackSetup ==
    /\ ppc = "setup"
    /\ \/ /\ ppc' = "loop"
          /\ samples_consumed' = 0
       \/ /\ ppc' = "done"
          /\ UNCHANGED samples_consumed
    /\ UNCHANGED <<shared, ring, cpc, to_skip, to_read, data, consumer_guard,
                   history>>
    /\ OnlyPlayback

\* The outer loop as it would be if it took the consumer's guard to look at
\* the buffer before it leaves.
PlaybackLoopHoldsConsumer ==
    /\ ppc = "loop"
    /\ should_stop
    /\ consumer_guard = "None"
    /\ consumer_guard' = "playback"
    /\ ppc' = "drop"
    /\ UNCHANGED <<shared, ring, cpc, samples_consumed, to_skip, to_read, data,
                   history>>
    /\ UNCHANGED <<player, facade, decoder, applied>>

\* the outer loop: should_stop.load every 100 ms, break once it is set
PlaybackLoop ==
    /\ ppc = "loop"
    /\ should_stop
    /\ ppc' = "drop"
    /\ UNCHANGED <<shared, ring, cpc, samples_consumed, to_skip, to_read, data,
                   consumer_guard, history>>
    /\ OnlyPlayback

\* return Ok(()): the drop of the stream begins, and the device starts no
\* invocation of the callback from here on.
PlaybackDrop ==
    /\ ppc = "drop"
    /\ ppc' = "closing"
    /\ UNCHANGED <<shared, ring, cpc, samples_consumed, to_skip, to_read, data,
                   consumer_guard, history>>
    /\ OnlyPlayback

\* The drop of the stream ends once an invocation in flight has completed,
\* and the thread ends with it.
PlaybackReturn ==
    /\ ppc = "closing"
    /\ cpc = "idle"
    /\ ppc' = "done"
    /\ UNCHANGED <<shared, ring, cpc, samples_consumed, to_skip, to_read, data,
                   consumer_guard, history>>
    /\ OnlyPlayback

\* ----------------------------------------------------- the device callback
\* return from the closure: `out` is what the invocation wrote into data
CbReturn(branch, out) ==
    /\ cpc' = "returned"
    /\ cb_branch' = branch
    /\ data' = out
    /\ to_skip' = 0
    /\ to_read' = 0
    /\ consumer_guard' = "None"
    /\ UNCHANGED <<flush_owed, cb_owed>>

\* The device takes the buffer the closure filled; the next invocation gets
\* another one.
CbDeviceTake ==
    /\ cpc = "returned"
    /\ cpc' = "idle"
    /\ cb_branch' = "none"
    /\ cb_owed' = FALSE
    /\ UNCHANGED flush_owed
    /\ data' = <<>>
    /\ UNCHANGED <<shared, player, facade, ring, decoder, ppc, samples_consumed,
                   to_skip, to_read, consumer_guard, epoch, landed, seek_seq,
                   serviced_seq, calls_left, paused, stopped, applied>>

CbHistoryOfSession == UNCHANGED <<epoch, landed, seek_seq, serviced_seq, calls_left, paused, stopped>>
CbHistory == UNCHANGED <<epoch, landed, seek_seq, serviced_seq, calls_left, paused, stopped, flush_owed, cb_owed>>

\* The callback as it would be if it looked at buffer_flush_pending before
\* is_playing.
CbStartFlushFirst ==
    /\ cpc = "idle"
    /\ ppc \in {"loop", "drop"}
    /\ cb_owed' = flush_owed
    /\ flush_owed' = (flush_owed /\ ~buffer_flush_pending)
    /\ IF buffer_flush_pending
       THEN /\ cpc' = "flush_len"
            /\ cb_branch' = "running"
            /\ data' = [k \in 1..BufLen |-> Unwritten]
       ELSE IF ~is_playing
       THEN /\ cpc' = "returned"
            /\ cb_branch' = "paused"
            /\ data' = Zeros(BufLen)
       ELSE /\ cpc' = "check_seek"
            /\ cb_branch' = "running"
            /\ data' = [k \in 1..BufLen |-> Unwritten]
    /\ UNCHANGED <<shared, ring, ppc, samples_consumed, to_skip, to_read,
                   consumer_guard, epoch, landed, seek_seq, serviced_seq,
                   calls_left, paused, stopped>>
    /\ UNCHANGED <<player, facade, decoder, applied>>

\* The device invokes the callback while the stream lives, which is until the
\* playback thread drops it: is_playing.load, and silence when it is false.
CbStart ==
    /\ cpc = "idle"
    /\ ppc \in {"loop", "drop"}
    /\ cb_owed' = flush_owed
    /\ UNCHANGED flush_owed
    /\ IF ~is_playing
       THEN /\ cpc' = "returned"
            /\ cb_branch' = "paused"
            /\ data' = Zeros(BufLen)
            /\ UNCHANGED <<to_skip, to_read>>
       ELSE /\ cpc' = "check_flush"
            /\ cb_branch' = "running"
            /\ data' = [k \in 1..BufLen |-> Unwritten]
            /\ UNCHANGED <<to_skip, to_read>>
    /\ UNCHANGED <<shared, ring, ppc, samples_consumed, consumer_guard, epoch,
                   landed, seek_seq, serviced_seq, calls_left, paused, stopped>>
    /\ OnlyPlayback

\* buffer_flush_pending.load
CbCheckFlush ==
    /\ cpc = "check_flush"
    /\ cpc' = IF buffer_flush_pending THEN "flush_len" ELSE "check_seek"
    /\ flush_owed' = (flush_owed /\ ~buffer_flush_pending)
    /\ UNCHANGED <<shared, ring, ppc, samples_consumed, to_skip, to_read, data,
                   consumer_guard, cb_owed, cb_branch>>
    /\ CbHistoryOfSession
    /\ OnlyPlayback

\* flush: consumer.lock(), which waits while another holder has the guard;
\* to_skip = consumer.occupied_len()
CbFlushLen ==
    /\ cpc = "flush_len"
    /\ consumer_guard = "None"
    /\ consumer_guard' = "callback"
    /\ to_skip' = Len(ring)
    /\ cpc' = "flush_skip"
    /\ UNCHANGED <<shared, ring, ppc, samples_consumed, to_read, data, history>>
    /\ OnlyPlayback

\* flush: consumer.skip(to_skip)
CbFlushSkip ==
    /\ cpc = "flush_skip"
    /\ ring' = SubSeq(ring, to_skip + 1, Len(ring))
    /\ cpc' = "flush_load"
    /\ UNCHANGED <<shared, ppc, samples_consumed, to_skip, to_read, data,
                   consumer_guard, history>>
    /\ OnlyPlayback

\* The flush as it would be if it left the consumed-sample counter alone.
CbFlushLoadKeepsCounter ==
    /\ cpc = "flush_load"
    /\ cpc' = "flush_clear"
    /\ UNCHANGED <<shared, ring, ppc, samples_consumed, to_skip, to_read, data,
                   consumer_guard, history>>
    /\ UNCHANGED <<player, facade, decoder, applied>>

\* flush: samples_consumed = current_frame.load() * channels
CbFlushLoad ==
    /\ cpc = "flush_load"
    /\ samples_consumed' = current_frame * channels
    /\ cpc' = "flush_clear"
    /\ UNCHANGED <<shared, ring, ppc, to_skip, to_read, data, consumer_guard,
                   history>>
    /\ OnlyPlayback

\* flush: buffer_flush_pending.store(false), silence, return
CbFlushClear ==
    /\ cpc = "flush_clear"
    /\ buffer_flush_pending' = FALSE
    /\ CbReturn("flush", Zeros(BufLen))
    /\ CbHistory
    /\ UNCHANGED <<is_playing, current_frame, total_frames, sample_rate, channels,
                   should_stop, seek_to_frame, seek_pending, ring, ppc,
                   samples_consumed>>
    /\ OnlyPlayback

\* The seek check as it would be if the callback took the request off itself.
CbCheckSeekClears ==
    /\ cpc = "check_seek"
    /\ IF seek_pending
       THEN /\ CbReturn("seek", Zeros(BufLen))
            /\ seek_pending' = FALSE
       ELSE /\ cpc' = "pop_len"
            /\ UNCHANGED <<cb_branch, data, to_skip, to_read, consumer_guard,
                           seek_pending>>
    /\ CbHistory
    /\ UNCHANGED <<is_playing, current_frame, total_frames, sample_rate, channels,
                   should_stop, seek_to_frame, buffer_flush_pending, ring, ppc,
                   samples_consumed>>
    /\ UNCHANGED <<player, facade, decoder, applied>>

\* The seek check as it would be if it went on to the buffer whatever it read.
CbCheckSeekIgnored ==
    /\ cpc = "check_seek"
    /\ cpc' = "pop_len"
    /\ UNCHANGED <<cb_branch, data, to_skip, to_read, consumer_guard>>
    /\ CbHistory
    /\ UNCHANGED <<shared, ring, ppc, samples_consumed>>
    /\ UNCHANGED <<player, facade, decoder, applied>>

\* seek_pending.load, and silence while a seek is in progress
CbCheckSeek ==
    /\ cpc = "check_seek"
    /\ IF seek_pending
       THEN CbReturn("seek", Zeros(BufLen))
       ELSE /\ cpc' = "pop_len"
            /\ UNCHANGED <<cb_branch, data, to_skip, to_read, consumer_guard>>
    /\ CbHistory
    /\ UNCHANGED <<shared, ring, ppc, samples_consumed>>
    /\ OnlyPlayback

\* consumer.lock(); to_read = min(data.len(), consumer.occupied_len());
\* silence on underrun
CbPopLen ==
    /\ cpc = "pop_len"
    /\ consumer_guard = "None"
    /\ IF Min(BufLen, Len(ring)) = 0
       THEN CbReturn("underrun", Zeros(BufLen))
       ELSE /\ to_read' = Min(BufLen, Len(ring))
            /\ cpc' = "pop"
            /\ consumer_guard' = "callback"
            /\ UNCHANGED <<cb_branch, data, to_skip>>
    /\ CbHistory
    /\ UNCHANGED <<shared, ring, ppc, samples_consumed>>
    /\ OnlyPlayback

\* consumer.pop_slice(&mut data[..to_read]); samples_consumed.fetch_add(read)
CbPop ==
    /\ cpc = "pop"
    /\ data' = [k \in 1..BufLen |-> IF k <= to_read THEN ring[k] ELSE data[k]]
    /\ ring' = SubSeq(ring, to_read + 1, Len(ring))
    /\ samples_consumed' = samples_consumed + to_read
    /\ cpc' = "pop_store"
    /\ UNCHANGED <<shared, ppc, to_skip, to_read, consumer_guard, history>>
    /\ OnlyPlayback

\* The store of the position as it would be if it stored the sample count.
CbPopStoreSamples ==
    /\ cpc = "pop_store"
    /\ current_frame' = samples_consumed
    /\ CbReturn("pop", [k \in 1..BufLen |-> IF k <= to_read THEN data[k] ELSE Silence])
    /\ CbHistory
    /\ UNCHANGED <<is_playing, total_frames, sample_rate, channels, should_stop,
                   seek_to_frame, seek_pending, buffer_flush_pending, ring, ppc,
                   samples_consumed>>
    /\ UNCHANGED <<player, facade, decoder, applied>>

\* current_frame.store(consumed / channels); silence after the popped samples
CbPopStore ==
    /\ cpc = "pop_store"
    /\ current_frame' = samples_consumed \div channels
    /\ CbReturn("pop", [k \in 1..BufLen |-> IF k <= to_read THEN data[k] ELSE Silence])
    /\ CbHistory
    /\ UNCHANGED <<is_playing, total_frames, sample_rate, channels, should_stop,
                   seek_to_frame, seek_pending, buffer_flush_pending, ring, ppc,
                   samples_consumed>>
    /\ OnlyPlayback

\* ------------------------------------------------------- the specification
FacadeStep ==
    \/ Pause
    \/ Resume
    \/ ToggleLoad
    \/ ToggleStore
    \/ \E k \in SeekTimes : SeekStoreFrame(k)
    \/ SeekStorePending
    \/ StopCall
    \/ \E path \in Paths : PlayCall(path)
    \/ PlayProbe
    \/ PlayStoreMeta
    \/ PlayReset
    \/ PlayCreateRing
    \/ PlaySpawnDecoder
    \/ PlaySpawnPlayback
    \/ PlayStoreHandles

\* The steps of stop(), which wait for nothing but the two joins.
StopStep ==
    \/ StopSetStop
    \/ StopClearPlaying
    \/ StopJoinDecoder
    \/ StopJoinPlayback
    \/ StopResetFrame

DecoderStep ==
    \/ DecoderSetup
    \/ DecoderCheckStop
    \/ DecoderCheckSeek
    \/ DecoderSeek
    \/ DecoderStoreCurrent
    \/ DecoderStoreFlush
    \/ DecoderClearSeek
    \/ DecoderNextPacket
    \/ DecoderPushCheckStop
    \/ DecoderPushCheckSeek
    \/ DecoderPush

PlaybackStep ==
    \/ PlaybackSetup
    \/ PlaybackLoop
    \/ PlaybackDrop
    \/ PlaybackReturn

\* The steps that finish an invocation of the callback.
CallbackStep ==
    \/ CbCheckFlush
    \/ CbFlushLen
    \/ CbFlushSkip
    \/ CbFlushLoad
    \/ CbFlushClear
    \/ CbCheckSeek
    \/ CbPopLen
    \/ CbPop
    \/ CbPopStore
    \/ CbDeviceTake

Next == FacadeStep \/ StopStep \/ DecoderStep \/ PlaybackStep \/ CbStart \/ CallbackStep

Spec == Init /\ [][Next]_vars

\* Every thread keeps being scheduled, and a call of stop() keeps running.
FairSpec ==
    /\ LiveInit
    /\ [][Next]_vars
    /\ WF_vars(StopStep)
    /\ WF_vars(DecoderStep)
    /\ WF_vars(PlaybackStep)
    /\ WF_vars(CallbackStep)

\* As FairSpec, and the device keeps invoking the callback while the stream
\* lives.
FairDeviceSpec == FairSpec /\ WF_vars(CbStart)

\* ------------------------------------------- a buffer of whole frames
\* The player with a ring buffer whose capacity is a multiple of the file's
\* channel count, as 480000 is of 1, 2, 3, 4, 5, 6 and 8, playing a file whose
\* packets hold two frames and all decode: a block can be pushed in parts,
\* and every part is a whole number of frames.
AlignedFrames == 2
AlignedPacketFrames == 2
AlignedCapacity == AlignedFrames * FileChannels

AlignedDecoderStep ==
    \/ DecoderSetup
    \/ DecoderCheckStop
    \/ DecoderCheckSeek
    \/ DecoderSeekIn(AlignedPacketFrames)
    \/ DecoderStoreCurrent
    \/ DecoderStoreFlush
    \/ DecoderClearSeek
    \/ DecoderNextPacketOf(AlignedPacketFrames, {})
    \/ DecoderPushCheckStop
    \/ DecoderPushCheckSeek
    \/ DecoderPushInto(AlignedCapacity)

AlignedNext ==
    FacadeStep \/ StopStep \/ AlignedDecoderStep \/ PlaybackStep \/ CbStart \/ CallbackStep

AlignedSpec == Init /\ [][AlignedNext]_vars

\* ------------------------------------------ functions applied on their own
\* An f64 of the trim interface: NaN, or a whole number of 1/TimeDen seconds.
NaN == [nan |-> TRUE, v |-> 0]
F64(v) == [nan |-> FALSE, v |-> v]
Times == {NaN} \cup {F64(v) : v \in -1..MaxTime}

\* The comparisons and the subtraction of f64: a comparison with NaN is false,
\* a difference with NaN is NaN.
Lt(a, b) == ~a.nan /\ ~b.nan /\ a.v < b.v
Le(a, b) == ~a.nan /\ ~b.nan /\ a.v <= b.v
Sub(a, b) == IF a.nan \/ b.nan THEN NaN ELSE F64(a.v - b.v)

\* `(x * n) as usize` for a whole number n: the floor of the product, 0 for a
\* negative product and for NaN.
AsUsize(x, n) == IF x.nan \/ x.v <= 0 THEN 0 ELSE (x.v * n) \div TimeDen

\* TrimParams::new
TrimParamsNew(start, end) ==
    IF Lt(start, F64(0)) THEN [tag |-> "InvalidTrimParams"]
    ELSE IF Le(end, start) THEN [tag |-> "InvalidTrimParams"]
    ELSE [tag |-> "Ok", start_seconds |-> start, end_seconds |-> end]

\* TrimParams::trim_duration
trim_duration(p) == Sub(p.end_seconds, p.start_seconds)

\* AudioData values: n interleaved samples, each standing for its own index.
Audios ==
    {[samples |-> [k \in 1..n |-> k - 1], sample_rate |-> r, channels |-> c] :
        n \in 0..MaxSamples, r \in 1..MaxRate, c \in 1..MaxChannels}

\* AudioData::duration_seconds as the exact fraction <<numerator, denominator>>
duration_seconds(audio) ==
    <<Len(audio.samples), audio.channels * audio.sample_rate>>

\* trim_audio: params.end_seconds > duration
BeyondDuration(audio, params) ==
    /\ ~params.end_seconds.nan
    /\ params.end_seconds.v * duration_seconds(audio)[2]
          > duration_seconds(audio)[1] * TimeDen

\* trim_audio: the two sample indices, aligned to frames and clamped to the
\* number of samples
trim_indices(audio, params) ==
    LET sps == audio.sample_rate * audio.channels
        ch == audio.channels
        len == Len(audio.samples)
        start0 == AsUsize(params.start_seconds, sps)
        end0 == AsUsize(params.end_seconds, sps)
    IN <<Min((start0 \div ch) * ch, len), Min((end0 \div ch) * ch, len)>>

\* trim_audio: the error, the slice, or the panic of a slice whose start index
\* is above its end index
trim_audio(audio, params) ==
    LET ix == trim_indices(audio, params)
    IN IF BeyondDuration(audio, params) THEN [tag |-> "TrimRangeOutOfBounds"]
       ELSE IF ix[1] > ix[2] THEN [tag |-> "panic"]
       ELSE [tag |-> "Ok",
             samples |-> SubSeq(audio.samples, ix[1] + 1, ix[2]),
             sample_rate |-> audio.sample_rate,
             channels |-> audio.channels]

\* ------------------------------------------------------------ waveform.rs
\* The f32 values of the peak arithmetic, on the scale of F64: F32Max stands
\* for f32::MAX and -F32Max for f32::MIN, the two values the peak buffers
\* start from; a decoded sample is NaN or one of four numbers, the two
\* extremes among them.
F32Max == 2
F32_MAX == F64(F32Max)
F32_MIN == F64(-F32Max)
SampleValues == {NaN} \cup {F64(v) : v \in {-F32Max, -1, 1, F32Max}}

\* f32::min and f32::max: a NaN operand is ignored
f32_min(a, b) == IF b.nan THEN a ELSE IF a.nan THEN b ELSE IF b.v < a.v THEN b ELSE a
f32_max(a, b) == IF b.nan THEN a ELSE IF a.nan THEN b ELSE IF b.v > a.v THEN b ELSE a

\* usize::clamp
Clamp(x, lo, hi) == IF x < lo THEN lo ELSE IF x > hi THEN hi ELSE x

MIN_SAMPLES_PER_PEAK == 100
MAX_SKIP == 50

\* ------------------------------------------------ binary64 arithmetic
\* The f64 values of waveform.rs, with the rounding of IEEE 754: NaN, +inf,
\* or a finite value (h * 2^26 + l) * 2^e that is not negative, its 53-bit
\* significand cut in two so that no intermediate number of the arithmetic
\* reaches 2^31.  Zero has h = l = 0; every other finite value is normalised,
\* 2^52 <= h * 2^26 + l < 2^53.  The values of the peak arithmetic are ratios
\* and products of integers below 2^30: none is subnormal or overflows.
\* 2^n for 0 <= n <= 30
Pow2(n) ==
    <<1, 2, 4, 8, 16, 32, 64, 128, 256, 512, 1024, 2048, 4096, 8192, 16384,
      32768, 65536, 131072, 262144, 524288, 1048576, 2097152, 4194304,
      8388608, 16777216, 33554432, 67108864, 134217728, 268435456,
      536870912, 1073741824>>[n + 1]

\* The number of bits of n, 0 <= n < 2^30
BitLen(n) == Cardinality({k \in 0..29 : Pow2(k) <= n})

Limb == Pow2(26)
Digit == Pow2(13)

f64_nan == [k |-> "nan", h |-> 0, l |-> 0, e |-> 0]
f64_inf == [k |-> "inf", h |-> 0, l |-> 0, e |-> 0]
f64_zero == [k |-> "fin", h |-> 0, l |-> 0, e |-> 0]
f64_is_zero(x) == x.k = "fin" /\ x.h = 0

\* The literals 0.5 and 1.5
f64_half == [k |-> "fin", h |-> Limb, l |-> 0, e |-> -53]
f64_three_halves == [k |-> "fin", h |-> Limb + Limb \div 2, l |-> 0, e |-> -52]

\* `n as f64` for an integer 0 <= n < 2^30: exact
f64_of_u64(n) ==
    IF n = 0 THEN f64_zero
    ELSE LET s == 53 - BitLen(n)
         IN IF s >= 26
            THEN [k |-> "fin", h |-> n * Pow2(s - 26), l |-> 0, e |-> -s]
            ELSE [k |-> "fin", h |-> n \div Pow2(26 - s),
                  l |-> (n % Pow2(26 - s)) * Pow2(s), e |-> -s]

\* Round to nearest, ties to even: the 53 bits (h, l) of an exact result, the
\* bit after them (guard) and whether any later bit is set (sticky).
f64_round(h, l, e, guard, sticky) ==
    IF guard /\ (sticky \/ l % 2 = 1)
    THEN IF l + 1 < Limb THEN [k |-> "fin", h |-> h, l |-> l + 1, e |-> e]
         ELSE IF h + 1 < 2 * Limb THEN [k |-> "fin", h |-> h + 1, l |-> 0, e |-> e]
         ELSE [k |-> "fin", h |-> Limb, l |-> 0, e |-> e + 1]
    ELSE [k |-> "fin", h |-> h, l |-> l, e |-> e]

\* The 106 bits of a product of significands, cut to 53 and rounded: qh and
\* ql are its bits from 2^52 on, p3 the 13 bits below them and `low` whether
\* any bit below those is set
f64_mul_round(qh, ql, p3, low, e) ==
    IF qh >= 2 * Limb
    THEN f64_round(qh \div 2, ql \div 2 + (qh % 2) * (Limb \div 2), e + 1,
                   ql % 2 = 1, p3 # 0 \/ low)
    ELSE f64_round(qh, ql, e, p3 >= Digit \div 2,
                   p3 % (Digit \div 2) # 0 \/ low)

\* The carries of a product: s0 .. s8 are the sums of the digit products of
\* each column
f64_mul_carry(s0, s1, s2, s3, s4, s5, s6, s7, s8, e) ==
    LET c1 == s1 + s0 \div Digit
        c2 == s2 + c1 \div Digit
        c3 == s3 + c2 \div Digit
        c4 == s4 + c3 \div Digit
        c5 == s5 + c4 \div Digit
        c6 == s6 + c5 \div Digit
        c7 == s7 + c6 \div Digit
        c8 == s8 + c7 \div Digit
    IN f64_mul_round((c6 % Digit) + (c7 % Digit) * Digit + c8 * Limb,
                     (c4 % Digit) + (c5 % Digit) * Digit,
                     c3 % Digit,
                     s0 % Digit # 0 \/ c1 % Digit # 0 \/ c2 % Digit # 0,
                     e)

\* a * b of two finite values other than zero: the 106-bit product of the
\* significands, by columns of 13-bit digits, rounded to 53 bits
f64_mul_finite(a, b) ==
    LET a0 == a.l % Digit
        a1 == a.l \div Digit
        a2 == a.h % Digit
        a3 == (a.h \div Digit) % Digit
        a4 == a.h \div Limb
        b0 == b.l % Digit
        b1 == b.l \div Digit
        b2 == b.h % Digit
        b3 == (b.h \div Digit) % Digit
        b4 == b.h \div Limb
    IN f64_mul_carry(a0 * b0,
                     a0 * b1 + a1 * b0,
                     a0 * b2 + a1 * b1 + a2 * b0,
                     a0 * b3 + a1 * b2 + a2 * b1 + a3 * b0,
                     a0 * b4 + a1 * b3 + a2 * b2 + a3 * b1 + a4 * b0,
                     a1 * b4 + a2 * b3 + a3 * b2 + a4 * b1,
                     a2 * b4 + a3 * b3 + a4 * b2,
                     a3 * b4 + a4 * b3,
                     a4 * b4,
                     a.e + b.e + 52)

\* a * b
f64_mul(a, b) ==
    IF a.k = "nan" \/ b.k = "nan" THEN f64_nan
    ELSE IF a.k = "inf" \/ b.k = "inf"
    THEN (IF f64_is_zero(a) \/ f64_is_zero(b) THEN f64_nan ELSE f64_inf)
    ELSE IF f64_is_zero(a) \/ f64_is_zero(b) THEN f64_zero
    ELSE f64_mul_finite(a, b)

\* Long division of significands, one quotient bit a step.  s holds the
\* remainder (rh, rl), which is below the divisor (dh, dl), and the quotient
\* bits so far (qh, ql); (th, tl) is the remainder shifted by one bit.
f64_div_bit(s, dh, dl, th, tl, bit, borrow) ==
    [rh |-> IF bit THEN th - dh - borrow ELSE th,
     rl |-> IF bit THEN tl + borrow * Limb - dl ELSE tl,
     qh |-> 2 * s.qh + (2 * s.ql) \div Limb,
     ql |-> ((2 * s.ql) % Limb) + (IF bit THEN 1 ELSE 0)]

f64_div_shifted(s, dh, dl, th, tl) ==
    f64_div_bit(s, dh, dl, th, tl, th > dh \/ (th = dh /\ tl >= dl),
                IF tl >= dl THEN 0 ELSE 1)

f64_div_step(s, dh, dl) ==
    f64_div_shifted(s, dh, dl, 2 * s.rh + (2 * s.rl) \div Limb, (2 * s.rl) % Limb)

\* A remainder of zero leaves only zero bits: the quotient bits so far,
\* shifted by the n <= 52 bits still to come
f64_div_zeros(s, n) ==
    IF n > 26
    THEN [s EXCEPT !.qh = s.ql * Pow2(n - 26), !.ql = 0]
    ELSE [s EXCEPT !.qh = s.qh * Pow2(n) + s.ql \div Pow2(26 - n),
                   !.ql = (s.ql % Pow2(26 - n)) * Pow2(n)]

\* 2, 4, 8, 16 and 32 steps of the long division
f64_div_2(s, dh, dl) ==
    IF s.rh = 0 /\ s.rl = 0 THEN f64_div_zeros(s, 2)
    ELSE f64_div_step(f64_div_step(s, dh, dl), dh, dl)

f64_div_4(s, dh, dl) ==
    IF s.rh = 0 /\ s.rl = 0 THEN f64_div_zeros(s, 4)
    ELSE f64_div_2(f64_div_2(s, dh, dl), dh, dl)

f64_div_8(s, dh, dl) ==
    IF s.rh = 0 /\ s.rl = 0 THEN f64_div_zeros(s, 8)
    ELSE f64_div_4(f64_div_4(s, dh, dl), dh, dl)

f64_div_16(s, dh, dl) ==
    IF s.rh = 0 /\ s.rl = 0 THEN f64_div_zeros(s, 16)
    ELSE f64_div_8(f64_div_8(s, dh, dl), dh, dl)

f64_div_32(s, dh, dl) ==
    IF s.rh = 0 /\ s.rl = 0 THEN f64_div_zeros(s, 32)
    ELSE f64_div_16(f64_div_16(s, dh, dl), dh, dl)

\* The 52 steps that follow the first quotient bit
f64_div_steps(s, dh, dl) ==
    f64_div_4(f64_div_16(f64_div_32(s, dh, dl), dh, dl), dh, dl)

\* The quotient s of 53 bits and the step g after it, whose bit is the guard
\* bit and whose remainder tells whether any later bit is set
f64_div_round(s, g, e) ==
    f64_round(s.qh, s.ql, e, g.ql % 2 = 1, g.rh # 0 \/ g.rl # 0)

f64_div_guard(s, b, e) == f64_div_round(s, f64_div_step(s, b.h, b.l), e)

\* The first quotient bit, which is set: (th, tl) is the significand of a,
\* shifted by one bit when it is below that of b
f64_div_first(b, th, tl, borrow, e) ==
    f64_div_guard(f64_div_steps([rh |-> th - b.h - borrow,
                                 rl |-> tl + borrow * Limb - b.l,
                                 qh |-> 0, ql |-> 1], b.h, b.l), b, e)

f64_div_aligned(b, th, tl, e) ==
    f64_div_first(b, th, tl, IF tl >= b.l THEN 0 ELSE 1, e)

\* a / b of two finite values other than zero: the first quotient bit is
\* set, 52 more bits follow it and the 54th is the guard bit
f64_div_finite(a, b) ==
    IF a.h > b.h \/ (a.h = b.h /\ a.l >= b.l)
    THEN f64_div_aligned(b, a.h, a.l, a.e - b.e - 52)
    ELSE f64_div_aligned(b, 2 * a.h + (2 * a.l) \div Limb, (2 * a.l) % Limb,
                         a.e - b.e - 53)

\* a / b
f64_div(a, b) ==
    IF a.k = "nan" \/ b.k = "nan" THEN f64_nan
    ELSE IF a.k = "inf" THEN (IF b.k = "inf" THEN f64_nan ELSE f64_inf)
    ELSE IF b.k = "inf" THEN f64_zero
    ELSE IF f64_is_zero(b) THEN (IF f64_is_zero(a) THEN f64_nan ELSE f64_inf)
    ELSE IF f64_is_zero(a) THEN f64_zero
    ELSE f64_div_finite(a, b)

\* a < b
f64_lt(a, b) ==
    IF a.k = "nan" \/ b.k = "nan" \/ a.k = "inf" THEN FALSE
    ELSE IF b.k = "inf" THEN TRUE
    ELSE IF f64_is_zero(b) THEN FALSE
    ELSE IF f64_is_zero(a) THEN TRUE
    ELSE \/ a.e < b.e
         \/ a.e = b.e /\ a.h < b.h
         \/ a.e = b.e /\ a.h = b.h /\ a.l < b.l

\* The integers of the model stay below 2^30: a cast whose value is 2^30 or
\* more, usize::MAX for +inf included, gives Saturated, which its callers
\* only compare with a number of peaks.
Saturated == Pow2(30)

\* `x as usize` and `x as u64`: the integer part, 0 for NaN
f64_as_usize(x) ==
    IF x.k = "nan" THEN 0
    ELSE IF x.k = "inf" THEN Saturated
    ELSE IF f64_is_zero(x) \/ x.e <= -53 THEN 0
    ELSE IF x.e > -23 THEN Saturated
    ELSE IF x.e <= -26 THEN x.h \div Pow2(-x.e - 26)
    ELSE x.h * Pow2(26 + x.e) + x.l \div Pow2(-x.e)

\* calculate_optimal_skip
calculate_optimal_skip(total, num_peaks) ==
    LET frames_per_peak == f64_div(f64_of_u64(total), f64_of_u64(num_peaks))
        optimal_skip ==
            f64_as_usize(f64_div(frames_per_peak, f64_of_u64(MIN_SAMPLES_PER_PEAK)))
    IN Clamp(optimal_skip, 1, MAX_SKIP)

\* calculate_seek_groups, duration_secs being its duration_seconds; the
\* factors 0.5 and 1.5 are exact in binary64
calculate_seek_groups(duration_secs, num_peaks) ==
    LET base_groups == IF num_peaks \div 20 < 1 THEN 1 ELSE num_peaks \div 20
        duration_factor ==
            IF f64_lt(duration_secs, f64_of_u64(30)) THEN f64_zero
            ELSE IF f64_lt(duration_secs, f64_of_u64(300))
            THEN f64_half
            ELSE IF f64_lt(duration_secs, f64_of_u64(1800)) THEN f64_of_u64(1)
            ELSE f64_three_halves
        adjusted_groups == f64_as_usize(f64_mul(f64_of_u64(base_groups), duration_factor))
    IN Clamp(adjusted_groups, 1, 200)

\* `(current_frame as f64 / frames_per_peak) as usize`: the quotient is
\* rounded to binary64 and then cut to its integer part; for frames_per_peak
\* = 0 it is NaN (cast to 0) when current_frame = 0 and infinite otherwise.
peak_of_frame(frame, frames_per_peak) ==
    f64_as_usize(f64_div(f64_of_u64(frame), frames_per_peak))

\* `((peak_idx + 1) as f64 * frames_per_peak) as u64`: the product is rounded
\* to binary64 and then cut to its integer part
peak_boundary(peak_idx, frames_per_peak) ==
    f64_as_usize(f64_mul(f64_of_u64(peak_idx + 1), frames_per_peak))

\* process_samples_generic, the loop over the channels of one frame:
\* acc = <<frame_min, frame_max>>
RECURSIVE frame_min_max(_, _, _, _, _)
frame_min_max(planes, nch, idx, channel, acc) ==
    IF channel >= nch THEN acc
    ELSE IF channel < Len(planes)
    THEN LET sample == planes[channel + 1][idx + 1]
         IN frame_min_max(planes, nch, idx, channel + 1,
                          <<f32_min(acc[1], sample), f32_max(acc[2], sample)>>)
    ELSE frame_min_max(planes, nch, idx, channel + 1, acc)

\* process_samples_generic, the loop over the frames of one peak segment:
\* acc = <<min_peaks[peak_idx], max_peaks[peak_idx]>>
RECURSIVE segment_min_max(_, _, _, _, _, _, _)
segment_min_max(planes, nch, frame_idx, frames_to_process, frame_skip, i, acc) ==
    IF i >= frames_to_process THEN acc
    ELSE LET f == frame_min_max(planes, nch, frame_idx + i, 0, <<F32_MAX, F32_MIN>>)
         IN segment_min_max(planes, nch, frame_idx, frames_to_process, frame_skip,
                            i + frame_skip,
                            <<f32_min(acc[1], f[1]), f32_max(acc[2], f[2])>>)

\* process_samples_generic, one pass of the batch loop. s holds frame_idx,
\* peak_idx, next_peak_boundary and the peak state p: current_frame,
\* min_peaks, max_peaks, the set `received` of the segments whose frame loop
\* has run (history) and `underflow`, set when next_peak_boundary -
\* current_frame would go below zero.
batch_step(planes, nch, frames_per_peak, num_peaks, frame_skip, s) ==
    IF s.next_peak_boundary < s.p.current_frame
    THEN [s EXCEPT !.p.underflow = TRUE]
    ELSE
    LET frames_until_boundary == s.next_peak_boundary - s.p.current_frame
        frames_to_process == Min(frames_until_boundary, Len(planes[1]) - s.frame_idx)
        seg == segment_min_max(planes, nch, s.frame_idx, frames_to_process,
                               frame_skip, 0,
                               <<s.p.min_peaks[s.peak_idx + 1],
                                 s.p.max_peaks[s.peak_idx + 1]>>)
        cf == s.p.current_frame + frames_to_process
        moved == cf >= s.next_peak_boundary
        pk == IF moved THEN s.peak_idx + 1 ELSE s.peak_idx
    IN [frame_idx |-> s.frame_idx + frames_to_process,
        peak_idx |-> pk,
        next_peak_boundary |->
            IF moved /\ pk < num_peaks
            THEN peak_boundary(pk, frames_per_peak)
            ELSE s.next_peak_boundary,
        p |-> [s.p EXCEPT
                 !.current_frame = cf,
                 !.min_peaks[s.peak_idx + 1] = seg[1],
                 !.max_peaks[s.peak_idx + 1] = seg[2],
                 !.received = IF frames_to_process > 0
                              THEN @ \cup {s.peak_idx} ELSE @]]

\* process_samples_generic, the batch loop
RECURSIVE batch_loop(_, _, _, _, _, _)
batch_loop(planes, nch, frames_per_peak, num_peaks, frame_skip, s) ==
    IF ~(s.frame_idx < Len(planes[1]) /\ s.peak_idx < num_peaks) \/ s.p.underflow
    THEN s.p
    ELSE batch_loop(planes, nch, frames_per_peak, num_peaks, frame_skip,
                    batch_step(planes, nch, frames_per_peak, num_peaks,
                               frame_skip, s))

\* process_samples_generic from the peak of the packet's first frame on
process_from_peak(planes, nch, frames_per_peak, num_peaks, frame_skip, p, peak_idx) ==
    IF peak_idx >= num_peaks THEN p
    ELSE batch_loop(planes, nch, frames_per_peak, num_peaks, frame_skip,
                    [frame_idx |-> 0,
                     peak_idx |-> peak_idx,
                     next_peak_boundary |-> peak_boundary(peak_idx, frames_per_peak),
                     p |-> p])

\* process_packet_peaks / process_samples_generic on one decoded packet
process_samples_generic(planes, nch, frames_per_peak, num_peaks, frame_skip, p) ==
    IF Len(planes) = 0 THEN p
    ELSE IF Len(planes[1]) = 0 THEN p
    ELSE process_from_peak(planes, nch, frames_per_peak, num_peaks, frame_skip, p,
                           peak_of_frame(p.current_frame, frames_per_peak))

\* extract_waveform_peaks, the packet loop of one seek group: packets is what
\* the reader still has to deliver, count is packets_in_group
RECURSIVE group_loop(_, _, _, _, _, _, _, _, _)
group_loop(packets, nch, frames_per_peak, num_peaks, frame_skip, group_end_peak, max_packets_per_group, count, p) ==
    IF p.underflow THEN p
    ELSE IF peak_of_frame(p.current_frame, frames_per_peak) >= group_end_peak THEN p
    ELSE IF count >= max_packets_per_group THEN p
    ELSE IF packets = <<>> THEN p
    ELSE IF Head(packets).err
    THEN group_loop(Tail(packets), nch, frames_per_peak, num_peaks, frame_skip,
                    group_end_peak, max_packets_per_group, count, p)
    ELSE group_loop(Tail(packets), nch, frames_per_peak, num_peaks, frame_skip,
                    group_end_peak, max_packets_per_group, count + 1,
                    process_samples_generic(Head(packets).planes, nch,
                                            frames_per_peak, num_peaks,
                                            frame_skip, p))

\* The number of frames a packet decodes to
packet_frames(packet) ==
    IF packet.err \/ Len(packet.planes) = 0 THEN 0 ELSE Len(packet.planes[1])

\* The packets from the one that holds the frame ts on, `start` being the
\* first frame of the first packet
RECURSIVE packets_from(_, _, _)
packets_from(packets, start, ts) ==
    IF packets = <<>> THEN <<>>
    ELSE IF start + packet_frames(Head(packets)) > ts THEN packets
    ELSE packets_from(Tail(packets), start + packet_frames(Head(packets)), ts)

\* format.seek(SeekMode::Coarse, SeekTo::Time { time, .. }): an error for a
\* file that cannot seek; otherwise the reader goes on from the packet that
\* holds the frame of that time.
format_seek(file, time) ==
    IF ~file.seekable THEN [err |-> TRUE, packets |-> <<>>]
    ELSE [err |-> FALSE,
          packets |-> packets_from(file.packets, 0,
                         f64_as_usize(f64_mul(time, f64_of_u64(file.sample_rate))))]

\* extract_waveform_peaks, one seek group: the first group goes on from
\* initial_frame with the packets not yet read, every other group seeks to
\* its start time and is skipped when the seek fails.  g holds what the
\* groups share.
seek_group(file, g, rest, group_idx, p, group_start_time, seek_result) ==
    IF group_idx > 0 /\ seek_result.err THEN p
    ELSE group_loop(IF group_idx = 0 THEN rest ELSE seek_result.packets,
                    g.nch, g.frames_per_peak, g.num_peaks, g.frame_skip,
                    Min((group_idx + 1) * g.peaks_per_group, g.num_peaks),
                    IF g.peaks_per_group * 10 < 50 THEN 50
                    ELSE g.peaks_per_group * 10,
                    0,
                    IF group_idx = 0 THEN p
                    ELSE [p EXCEPT !.current_frame =
                            f64_as_usize(f64_mul(group_start_time,
                                                 f64_of_u64(file.sample_rate)))])

seek_group_at(file, g, rest, group_idx, p, group_start_time) ==
    seek_group(file, g, rest, group_idx, p, group_start_time,
               format_seek(file, group_start_time))

\* extract_waveform_peaks, the loop over the seek groups from group_idx on
RECURSIVE seek_groups(_, _, _, _, _)
seek_groups(file, g, rest, group_idx, p) ==
    IF group_idx >= g.num_seek_groups \/ p.underflow THEN p
    ELSE IF group_idx * g.peaks_per_group >= g.num_peaks THEN p
    ELSE seek_groups(file, g, rest, group_idx + 1,
                     seek_group_at(file, g, rest, group_idx, p,
                                   f64_mul(f64_of_u64(group_idx), g.time_per_group)))

\* The last loop without its second test.
fix_unset_min_only(p) ==
    [p EXCEPT
       !.min_peaks = [i \in DOMAIN @ |-> IF @[i] = F32_MAX THEN F64(0) ELSE @[i]]]

\* extract_waveform_peaks, the last loop: a buffer value still at its
\* starting value becomes 0.0
fix_unset_peaks(p) ==
    [p EXCEPT
       !.min_peaks = [i \in DOMAIN @ |-> IF @[i] = F32_MAX THEN F64(0) ELSE @[i]],
       !.max_peaks = [i \in DOMAIN @ |-> IF @[i] = F32_MIN THEN F64(0) ELSE @[i]]]

\* extract_waveform_peaks, the WaveformPeaks it returns
WaveformPeaks(p, num_peaks, duration_secs, nch, rate) ==
    IF p.underflow THEN [tag |-> "panic"]
    ELSE [tag |-> "Ok",
          min_peaks |-> p.min_peaks,
          max_peaks |-> p.max_peaks,
          num_peaks |-> num_peaks,
          duration_seconds |-> duration_secs,
          channels |-> nch,
          sample_rate |-> rate,
          received |-> p.received]

\* extract_waveform_peaks from the seek strategy on; p is the peak state
\* after the channel detection
extract_groups(file, num_peaks, duration_secs, frames_per_peak, frame_skip, nch, rest, p, num_seek_groups) ==
    WaveformPeaks(
        fix_unset_peaks(
            seek_groups(file,
                        [nch |-> nch, frames_per_peak |-> frames_per_peak,
                         num_peaks |-> num_peaks, frame_skip |-> frame_skip,
                         num_seek_groups |-> num_seek_groups,
                         peaks_per_group |->
                             (num_peaks + num_seek_groups - 1) \div num_seek_groups,
                         time_per_group |->
                             f64_div(duration_secs, f64_of_u64(num_seek_groups))],
                        rest, 0, p)),
        num_peaks, duration_secs, nch, file.sample_rate)

\* extract_waveform_peaks, the channel detection: a track without a channel
\* count takes it from the first packet, which must decode and is processed
\* at once
extract_detect(file, num_peaks, duration_secs, frames_per_peak, frame_skip, p0) ==
    IF file.channels_opt = 0 /\ file.packets = <<>> THEN [tag |-> "DecodeFailed"]
    ELSE IF file.channels_opt = 0 /\ Head(file.packets).err
    THEN [tag |-> "DecodeFailed"]
    ELSE extract_groups(file, num_peaks, duration_secs, frames_per_peak, frame_skip,
                        IF file.channels_opt = 0
                        THEN Len(Head(file.packets).planes)
                        ELSE file.channels_opt,
                        IF file.channels_opt = 0
                        THEN Tail(file.packets) ELSE file.packets,
                        IF file.channels_opt = 0
                        THEN process_samples_generic(
                                 Head(file.packets).planes,
                                 Len(Head(file.packets).planes),
                                 frames_per_peak, num_peaks, frame_skip, p0)
                        ELSE p0,
                        calculate_seek_groups(duration_secs, num_peaks))

\* extract_waveform_peaks on a file that opens and probes and whose track
\* has a sample rate and a codec: file.n_frames is the frame count of the
\* track's metadata, <<>> for None and <<n>> for Some(n), file.sample_rate
\* its sample rate, file.channels_opt its channel count with 0 for None,
\* file.packets what next_packet and decode deliver (err for a packet that
\* fails to decode), file.seekable whether its reader can seek.
extract_waveform_peaks(file, num_peaks) ==
    IF num_peaks = 0 THEN [tag |-> "InvalidTrimParams"]
    ELSE IF file.n_frames = <<>> THEN [tag |-> "DecodeFailed"]
    ELSE extract_detect(file, num_peaks,
                        f64_div(f64_of_u64(file.n_frames[1]),
                                f64_of_u64(file.sample_rate)),
                        f64_div(f64_of_u64(file.n_frames[1]),
                                f64_of_u64(num_peaks)),
                        calculate_optimal_skip(file.n_frames[1], num_peaks),
                        [current_frame |-> 0,
                         min_peaks |-> [i \in 1..num_peaks |-> F32_MAX],
                         max_peaks |-> [i \in 1..num_peaks |-> F32_MIN],
                         received |-> {},
                         underflow |-> FALSE])

\* The files handed to extract_waveform_peaks: up to two packets of one plane
\* and up to MaxPacketFrames frames, or one packet of two planes and one
\* frame; a packet may fail to decode or decode to no plane at all.
MaxPeaks == 3
MaxMetaFrames == 3
MaxPacketFrames == 2
MonoPackets ==
    {[err |-> FALSE, planes |-> <<pl>>] :
        pl \in UNION {[1..n -> SampleValues] : n \in 0..MaxPacketFrames}}
    \cup {[err |-> TRUE, planes |-> <<>>], [err |-> FALSE, planes |-> <<>>]}
StereoPackets ==
    {[err |-> FALSE, planes |-> <<<<a>>, <<b>>>>] :
        a \in SampleValues, b \in SampleValues}
PacketSeqs ==
    {<<>>} \cup {<<a>> : a \in MonoPackets \cup StereoPackets}
           \cup {<<a, b>> : a \in MonoPackets, b \in MonoPackets}
WaveFiles ==
    {[n_frames |-> n, sample_rate |-> 1, channels_opt |-> c, seekable |-> TRUE,
      packets |-> ps] :
        n \in {<<>>} \cup {<<k>> : k \in 0..MaxMetaFrames}, c \in 0..2,
        ps \in PacketSeqs}

\* A packet of one plane that holds n times the sample v
TonePacket(n, v) == [err |-> FALSE, planes |-> <<[i \in 1..n |-> F64(v)]>>]

\* Short files asked for FinePeaks peaks, far more than they have frames:
\* for 49 peaks the last boundary 49 * (n / 49) is rounded below n when n is
\* 1 or 2.  Each file is up to MaxMetaFrames packets of one frame.
FinePeaks == 49
FineFiles ==
    {[n_frames |-> <<n>>, sample_rate |-> 1, channels_opt |-> c,
      seekable |-> TRUE, packets |-> ps] :
        n \in 1..MaxMetaFrames, c \in 0..1,
        ps \in UNION {[1..k -> {TonePacket(1, -1), TonePacket(1, 1)}] :
                         k \in 1..MaxMetaFrames}}

\* Files of LongSeconds seconds asked for LongPeaks peaks, which
\* calculate_seek_groups cuts into two seek groups: packets of
\* LongPacketFrames frames, one of which may fail to decode, read by a reader
\* that can seek or cannot.
LongSeconds == 60
LongPeaks == 80
LongPacketFrames == 10
LongPackets == {TonePacket(LongPacketFrames, -1), TonePacket(LongPacketFrames, 1)}
LongFiles ==
    {[n_frames |-> <<LongSeconds>>, sample_rate |-> 1, channels_opt |-> c,
      seekable |-> s, packets |-> ps] :
        c \in 0..1, s \in BOOLEAN,
        ps \in [1..(LongSeconds \div LongPacketFrames) ->
                   LongPackets \cup {[err |-> TRUE, planes |-> <<>>]}]}

\* ------------------------------------------------- the sample-rate search
\* The sample rates of the files that are played, and the rates an output
\* device may accept for the file's channel count.
FileRates == {22050, 24000, 44100, 48000}
DeviceRates == {22050, 24000, 44100, 48000, 96000}

\* The candidate rates in the order they are tried, the file's own first.
supported_rates(file_sample_rate) == <<file_sample_rate, 48000, 44100, 96000, 22050>>

\* device.build_output_stream(&stream_config, ..) with the given rate
build_output_stream(accepted, rate) == IF rate \in accepted THEN "Ok" ELSE "Err"

\* The loop as it would be without its break: every candidate is tried and
\* the last one that builds is kept.
RECURSIVE rate_search_no_break(_, _, _, _)
rate_search_no_break(rates, accepted, i, successful_rate) ==
    IF i > Len(rates)
    THEN successful_rate
    ELSE rate_search_no_break(rates, accepted, i + 1,
             IF build_output_stream(accepted, rates[i]) = "Ok"
             THEN rates[i] ELSE successful_rate)

\* The loop over supported_rates from its i-th entry: a test stream is built
\* at each rate, the first rate that builds is kept and ends the loop;
\* successful_rate is left as it is when none builds.
RECURSIVE rate_search(_, _, _, _)
rate_search(rates, accepted, i, successful_rate) ==
    IF i > Len(rates)
    THEN successful_rate
    ELSE IF build_output_stream(accepted, rates[i]) = "Ok"
         THEN rates[i]
         ELSE rate_search(rates, accepted, i + 1, successful_rate)

\* run_playback_stream from the rate search to the output stream: the stream
\* is built at successful_rate, which starts as the file's rate, and a
\* failure of that build is the error of the thread.
open_output_stream(file_sample_rate, accepted) ==
    LET successful_rate ==
            rate_search(supported_rates(file_sample_rate), accepted, 1,
                        file_sample_rate)
    IN  IF build_output_stream(accepted, successful_rate) = "Ok"
        THEN [tag |-> "Ok", rate |-> successful_rate]
        ELSE [tag |-> "DecodeFailed"]

\* A player that is read by get_state() on its own, or a call of one of the
\* trim functions with arguments that its callers can hand to it: any two
\* f64 for TrimParams::new, any AudioData and any TrimParams that
\* TrimParams::new returned for trim_audio.
PureInit ==
    /\ NoThreads
    /\ calls_left = 0
    /\ ret = [tag |-> "pending"]
    /\ \/ /\ call = [fn |-> "get_state"]
          /\ is_playing \in BOOLEAN
          /\ current_frame \in 0..MaxFrameArg
          /\ total_frames \in 0..MaxFrameArg
          /\ sample_rate \in {0, 1, 2, 44100}
          /\ channels = 2
          /\ should_stop = FALSE
          /\ seek_to_frame = 0
          /\ seek_pending = FALSE
          /\ buffer_flush_pending = FALSE
       \/ /\ NewState
          /\ \E a \in Times, b \in Times :
                call = [fn |-> "TrimParams::new", start |-> a, end |-> b]
       \/ /\ NewState
          /\ \E audio \in Audios, a \in Times, b \in Times :
                /\ TrimParamsNew(a, b).tag = "Ok"
                /\ call = [fn |-> "trim_audio", audio |-> audio,
                           params |-> TrimParamsNew(a, b)]
       \/ /\ NewState
          /\ \E r \in FileRates, accepted \in SUBSET DeviceRates :
                call = [fn |-> "run_playback_stream", file_sample_rate |-> r,
                        accepted |-> accepted]
       \/ /\ NewState
          /\ \/ \E file \in WaveFiles, n \in 0..MaxPeaks :
                   call = [fn |-> "extract_waveform_peaks", file |-> file,
                           num_peaks |-> n]
             \/ \E file \in FineFiles :
                   call = [fn |-> "extract_waveform_peaks", file |-> file,
                           num_peaks |-> FinePeaks]
             \/ \E file \in LongFiles :
                   call = [fn |-> "extract_waveform_peaks", file |-> file,
                           num_peaks |-> LongPeaks]

\* What the application of a function leaves alone: the whole player.
OnlyResult ==
    UNCHANGED <<call, shared, player, facade, ring, decoder, playback, history>>

\* get_state() is called
ApplyGetState ==
    /\ call.fn = "get_state"
    /\ ret.tag = "pending"
    /\ ret' = [tag |-> "Ok", val |-> get_state]
    /\ OnlyResult

\* TrimParams::new(start, end) is called
ApplyTrimParamsNew ==
    /\ call.fn = "TrimParams::new"
    /\ ret.tag = "pending"
    /\ ret' = TrimParamsNew(call.start, call.end)
    /\ OnlyResult

\* trim_audio(audio, params) is called
ApplyTrimAudio ==
    /\ call.fn = "trim_audio"
    /\ ret.tag = "pending"
    /\ ret' = trim_audio(call.audio, call.params)
    /\ OnlyResult

\* extract_waveform_peaks(path, Some(num_peaks)) is called
ApplyExtractWaveformPeaks ==
    /\ call.fn = "extract_waveform_peaks"
    /\ ret.tag = "pending"
    /\ ret' = extract_waveform_peaks(call.file, call.num_peaks)
    /\ OnlyResult

\* run_playback_stream opens its output stream
ApplyOpenOutputStream ==
    /\ call.fn = "run_playback_stream"
    /\ ret.tag = "pending"
    /\ ret' = open_output_stream(call.file_sample_rate, call.accepted)
    /\ OnlyResult

PureNext ==
    \/ ApplyGetState
    \/ ApplyTrimParamsNew
    \/ ApplyTrimAudio
    \/ ApplyExtractWaveformPeaks
    \/ ApplyOpenOutputStream

PureSpec == PureInit /\ [][PureNext]_vars

\* ================================================================ claims
StopPcs == {"stop_set", "stop_clear", "stop_join_decoder", "stop_join_playback",
            "stop_reset"}
FlushPcs == {"check_flush", "flush_len", "flush_skip", "flush_load", "flush_clear"}
PlaySetupPcs == {"play_probe", "play_meta", "play_reset", "play_ring",
                 "play_spawn_decoder"}
\* play_file and seek calls made so far belong to the first session
FirstSession == MaxCalls - calls_left = 1 + seek_seq

\* C1: once stop() has been entered, whatever the session is doing, both
\* threads end, no callback is left running and stop() returns.
C1_StopReturns ==
    (fpc = "stop_set")
        ~> (fpc \notin StopPcs /\ ~DecoderAlive /\ ~PlaybackAlive /\ cpc = "idle")

\* stop() waits for a decoder that is retrying on a full ring buffer
C1_Witness ==
    /\ fpc = "stop_join_decoder"
    /\ f_op = "stop"
    /\ dpc = "push_check_stop"
    /\ written < Len(samples)
    /\ Len(ring) = RING_BUFFER_SIZE
    /\ PlaybackAlive

\* C2: with neither seek_pending nor buffer_flush_pending set, the ring buffer
\* holds only samples decoded after the most recently serviced seek.
C2_NoStaleSamples ==
    (~seek_pending /\ ~buffer_flush_pending)
        => \A k \in 1..Len(ring) : ring[k].e = epoch

\* C3: while the decoder runs, seek_pending is false only if the last seek the
\* decoder performed is the one the caller requested last.
C3_LastSeekWins ==
    (DecoderAlive /\ fpc # "seek_pending" /\ ~seek_pending)
        => serviced_seq = seek_seq

\* C4: right after the flush for the one seek of a session the consumed-sample
\* counter is the landed frame times the channel count.
C4_FlushAlignsCounter ==
    (cpc = "flush_clear" /\ FirstSession /\ seek_seq = 1 /\ landed >= 0)
        => samples_consumed = landed * channels

\* C5: when play_file starts the threads of a session, the control state is
\* fresh and the ring buffer is empty.
C5_FreshState ==
    fpc = "play_spawn_decoder"
        => /\ ~should_stop
           /\ ~seek_pending
           /\ ~buffer_flush_pending
           /\ current_frame = 0
           /\ ring = <<>>

\* C6: from the return of stop() to the next facade call, both handles are
\* empty, no thread or callback of the session runs, is_playing is false and
\* current_frame is 0, so get_state() reports (false, 0, _).
C6_StopPostcondition ==
    (fpc = "idle" /\ f_op = "stop")
        => /\ decoder_thread = "None"
           /\ playback_thread = "None"
           /\ ~DecoderAlive
           /\ ~PlaybackAlive
           /\ cpc = "idle"
           /\ ~is_playing
           /\ current_frame = 0
           /\ get_state[1] = FALSE
           /\ get_state[2][1] = 0

\* stop() has returned from a session whose callback had played samples
C6_Witness ==
    /\ fpc = "idle"
    /\ f_op = "stop"
    /\ dpc = "done"
    /\ ppc = "done"
    /\ samples_consumed > 0

\* C7: play_file writes the metadata, resets the flags, creates the ring buffer
\* and spawns the threads only when no thread and no callback of the previous
\* session is left.
C7_OneSessionAtATime ==
    /\ fpc \in PlaySetupPcs => (~DecoderAlive /\ ~PlaybackAlive /\ cpc = "idle")
    /\ fpc = "play_spawn_playback" => (~PlaybackAlive /\ cpc = "idle")

\* play_file is about to spawn the threads of a second session
C7_Witness ==
    /\ fpc = "play_spawn_decoder"
    /\ dpc = "done"
    /\ ppc = "done"
    /\ samples_consumed > 0

\* C8 as stated: while paused the occupied length of the ring buffer never
\* decreases.
C8_NeverDecreasesWhilePaused ==
    [][(paused /\ paused') => Len(ring') >= Len(ring)]_vars

\* C8 as amended: a callback invocation that starts while paused returns
\* silence in its whole buffer and leaves the ring buffer alone, whatever the
\* buffer holds and whatever the seek and flush flags are.
C8_PausedInvocationSilent ==
    [][(paused /\ cpc = "idle" /\ cpc' # "idle")
          => /\ cpc' = "returned"
             /\ cb_branch' = "paused"
             /\ data' = Zeros(BufLen)
             /\ ring' = ring]_vars

\* a paused invocation has returned silence with samples buffered and a flush
\* pending
C8_Witness ==
    /\ paused
    /\ cpc = "returned"
    /\ cb_branch = "paused"
    /\ data = Zeros(BufLen)
    /\ Len(ring) > 0
    /\ buffer_flush_pending

\* C9: once the decoder has set buffer_flush_pending, a callback invocation
\* that starts before any invocation has read the flag as set performs the
\* flush, unless it reads is_playing = false and returns silence before it
\* looks at the flag.
C9_FirstPlayingInvocationFlushes ==
    (cpc = "returned" /\ cb_owed /\ cb_branch # "paused") => cb_branch = "flush"

\* C10: play_file returns an error exactly for a path that does not probe, and
\* then no thread exists, both handles are empty and is_playing is false.
C10_ProbeFailure ==
    (fpc = "idle" /\ f_op = "play")
        => /\ (f_result = "Err") = ~probe_audio_file(f_path).ok
           /\ f_result = "Err"
                => /\ decoder_thread = "None"
                   /\ playback_thread = "None"
                   /\ ~DecoderAlive
                   /\ ~PlaybackAlive
                   /\ ~is_playing

\* play_file has failed on a player whose previous session had played
C10_Witness ==
    /\ fpc = "idle"
    /\ f_op = "play"
    /\ f_result = "Err"
    /\ dpc = "done"
    /\ samples_consumed > 0

\* play_file has returned Ok and no other facade call has started since
PlayReturnedOk == fpc = "idle" /\ f_op = "play" /\ f_result = "Ok"

\* The duration get_state reports is that of the file handed to play_file.
DurationOfPlayedFile ==
    get_state[3] = <<probe_audio_file(f_path).total_frames,
                     probe_audio_file(f_path).sample_rate>>

\* C11 as stated: at the moment play_file returns Ok, get_state() reports
\* is_playing = true and the duration of the file just probed.  (After the
\* return only resume() or toggle(), calls of the caller, store true into
\* is_playing, so it is reported eventually only if it is set at the return.)
C11_ReturnsPlaying ==
    [][(fpc = "play_handles" /\ fpc' = "idle")
          => (get_state[1] /\ DurationOfPlayedFile)']_vars

\* C11 as amended: from the return of play_file with Ok to the next facade
\* call, both handles are kept, both threads have been spawned, get_state()
\* reports the duration of the file just probed, and it reports is_playing =
\* true unless the decoder has already reached the end of the stream.
C11_ReturnsPlayingUnlessEnded ==
    PlayReturnedOk
        => /\ decoder_thread = "Some"
           /\ playback_thread = "Some"
           /\ dpc # "none"
           /\ ppc # "none"
           /\ DurationOfPlayedFile
           /\ get_state[1] \/ (dpc = "done" /\ pos >= TotalFrames)

\* play_file has returned Ok after the decoder reached the end of the stream
C11_Witness ==
    /\ PlayReturnedOk
    /\ ~is_playing
    /\ dpc = "done"
    /\ pos >= TotalFrames
    /\ PlaybackAlive

\* A thread or a callback of the session exists.
SessionAlive == DecoderAlive \/ PlaybackAlive \/ CallbackRunning

\* C12: while a thread or a callback of a session exists, sample_rate, channels
\* and total_frames hold the metadata of the session's file and no step
\* writes them.
C12_MetadataFixed ==
    /\ [](SessionAlive
            => /\ sample_rate = probe_audio_file(loaded_file).sample_rate
               /\ channels = probe_audio_file(loaded_file).channels
               /\ total_frames = probe_audio_file(loaded_file).total_frames)
    /\ [][SessionAlive
            => UNCHANGED <<sample_rate, channels, total_frames>>]_vars

\* the playback thread of a second session is about to read the metadata
C12_Witness ==
    /\ ppc = "setup"
    /\ samples_consumed > 0
    /\ sample_rate = FileRate
    /\ total_frames = TotalFrames

\* C13: should_stop goes from true to false only in the reset of play_file,
\* when no thread and no callback of the previous session is left.
C13_StopLatch ==
    [][(should_stop /\ ~should_stop')
          => (fpc = "play_reset" /\ ~SessionAlive)]_vars

\* play_file has re-armed should_stop after a session that had played
C13_Witness ==
    /\ fpc = "play_ring"
    /\ ~should_stop
    /\ dpc = "done"
    /\ ppc = "done"
    /\ samples_consumed > 0

\* C14: current_frame never exceeds total_frames once play_file has stored
\* the metadata of a file.
C14_FrameWithinTotal ==
    total_frames = TotalFrames => current_frame <= total_frames

\* The steps at which the callback calls consumer.lock().
LockPcs == {"flush_len", "pop_len"}

\* C15: only the callback ever holds the guard of the consumer's mutex, and
\* the guard is free whenever the callback is about to lock it, so lock()
\* returns at once whatever the other threads are doing.
C15_CallbackNeverWaits ==
    /\ consumer_guard \in {"None", "callback"}
    /\ cpc \in LockPcs => consumer_guard = "None"
    /\ consumer_guard = "callback"
          => cpc \in {"flush_skip", "flush_load", "flush_clear", "pop", "pop_store"}

\* the callback holds the guard while the decoder pushes and the facade is in
\* the middle of a call
C15_Witness ==
    /\ consumer_guard = "callback"
    /\ cpc = "pop"
    /\ dpc = "push"
    /\ fpc = "seek_pending"

\* No session is active: both handles are empty.
NoSession == decoder_thread = "None" /\ playback_thread = "None"

\* C16: a stop() that runs with no session active finds both handles empty
\* when it comes to join them, so it waits on nothing; and no step of a
\* stop() that follows a stop() changes a shared field or a handle.
C16_StopIdempotent ==
    /\ []((NoSession /\ fpc = "stop_join_decoder") => ENABLED StopJoinDecoder)
    /\ []((NoSession /\ fpc = "stop_join_playback") => ENABLED StopJoinPlayback)
    /\ [][(stopped /\ f_op = "stop" /\ fpc \in StopPcs)
            => (shared' = shared /\ player' = player /\ ring' = ring)]_vars

\* a second consecutive stop() has returned on a player that had played
C16_Witness ==
    /\ stopped
    /\ fpc = "stop_reset"
    /\ f_op = "stop"
    /\ samples_consumed > 0

\* What pause, resume and toggle leave alone: every shared field but
\* is_playing, the ring buffer and the thread handles.
TransportFrame ==
    /\ UNCHANGED <<current_frame, total_frames, sample_rate, channels, should_stop,
                   seek_to_frame, seek_pending, buffer_flush_pending>>
    /\ ring' = ring
    /\ player' = player

\* C17: pause() stores false into is_playing, resume() stores true, toggle()
\* stores the negation of the value it loaded; they change nothing else of the
\* shared state, the ring buffer or the handles, and each of their steps can
\* be taken whatever the threads are doing.
C17_TransportEffects ==
    /\ [](fpc = "idle" => (ENABLED Pause /\ ENABLED Resume /\ ENABLED ToggleLoad))
    /\ [](fpc = "toggle_store" => ENABLED ToggleStore)
    /\ [][Pause => (is_playing' = FALSE /\ TransportFrame)]_vars
    /\ [][Resume => (is_playing' = TRUE /\ TransportFrame)]_vars
    /\ [][ToggleLoad => (f_current' = is_playing /\ is_playing' = is_playing
                          /\ TransportFrame)]_vars
    /\ [][ToggleStore => (is_playing' = ~f_current /\ TransportFrame)]_vars

\* toggle() is about to store the negation of a value that the decoder has
\* changed, at the end of the stream, since toggle() loaded it
C17_Witness ==
    /\ fpc = "toggle_store"
    /\ f_current
    /\ ~is_playing
    /\ dpc = "done"

\* The time t, a fraction <<numerator, denominator>>, is num / den seconds.
TimeIs(t, num, den) == t[2] > 0 /\ t[1] * den = num * t[2]

\* C18: get_state() returns is_playing, current_frame / sample_rate and
\* total_frames / sample_rate, both times 0 when sample_rate is 0; on the
\* state of a new player that is (false, 0, _); and the call changes nothing.
C18_GetState ==
    /\ []((call.fn = "get_state" /\ ret.tag = "Ok")
            => /\ ret.val[1] = is_playing
               /\ sample_rate > 0
                    => /\ TimeIs(ret.val[2], current_frame, sample_rate)
                       /\ TimeIs(ret.val[3], total_frames, sample_rate)
               /\ sample_rate = 0
                    => /\ TimeIs(ret.val[2], 0, 1)
                       /\ TimeIs(ret.val[3], 0, 1)
               /\ NewState => (ret.val[1] = FALSE /\ TimeIs(ret.val[2], 0, 1)))
    /\ [][ApplyGetState => UNCHANGED <<shared, player, ring>>]_vars

\* get_state() has returned for a state with frames counted and no sample rate
C18_Witness ==
    /\ call.fn = "get_state"
    /\ ret.tag = "Ok"
    /\ sample_rate = 0
    /\ current_frame > 0
    /\ total_frames > 0

\* C19: TrimParams::new(start, end) returns InvalidTrimParams exactly when
\* start < 0 or end <= start; otherwise it returns the given start and end,
\* for which 0 <= start < end and trim_duration() > 0.
C19_TrimParamsValid ==
    (call.fn = "TrimParams::new" /\ ret.tag # "pending")
        => /\ (ret.tag = "InvalidTrimParams")
                <=> (Lt(call.start, F64(0)) \/ Le(call.end, call.start))
           /\ ret.tag # "InvalidTrimParams"
                => /\ ret.tag = "Ok"
                   /\ ret.start_seconds = call.start
                   /\ ret.end_seconds = call.end
                   /\ Le(F64(0), ret.start_seconds)
                   /\ Lt(ret.start_seconds, ret.end_seconds)
                   /\ Lt(F64(0), trim_duration(ret))

\* The samples of the frames from floor(from * rate) up to, not including,
\* floor(to * rate), for times that are not NaN.
FramesBetween(audio, from, to) ==
    LET first == ((from.v * audio.sample_rate) \div TimeDen) * audio.channels
        last == ((to.v * audio.sample_rate) \div TimeDen) * audio.channels
    IN SubSeq(audio.samples, first + 1, last)

\* C20: trim_audio returns TrimRangeOutOfBounds when end_seconds exceeds the
\* duration; otherwise it returns, without a panic, the samples of the frames
\* from floor(start x rate) up to floor(end x rate), with both indices
\* multiples of the channel count, start index <= end index <= sample count,
\* and sample_rate and channels unchanged.
C20_TrimAudio ==
    (call.fn = "trim_audio" /\ ret.tag # "pending")
        => LET audio == call.audio
               ix == trim_indices(audio, call.params)
           IN IF BeyondDuration(audio, call.params)
              THEN ret.tag = "TrimRangeOutOfBounds"
              ELSE /\ ret.tag = "Ok"
                   /\ ix[1] % audio.channels = 0
                   /\ ix[2] % audio.channels = 0
                   /\ ix[1] <= ix[2]
                   /\ ix[2] <= Len(audio.samples)
                   /\ ret.samples = FramesBetween(audio, call.params.start_seconds,
                                                  call.params.end_seconds)
                   /\ ret.sample_rate = audio.sample_rate
                   /\ ret.channels = audio.channels


\* C21: extract_waveform_peaks never panics; when it succeeds it returns
\* exactly num_peaks minimum values and num_peaks maximum values, with
\* min_peaks[i] <= max_peaks[i] for every segment whatever packets were
\* processed, and a segment that received no sample is reported as minimum 0
\* and maximum 0.
C21_Peaks ==
    call.fn = "extract_waveform_peaks" =>
        /\ ret.tag # "panic"
        /\ ret.tag = "Ok" =>
              /\ Len(ret.min_peaks) = call.num_peaks
              /\ Len(ret.max_peaks) = call.num_peaks
              /\ \A i \in 1..call.num_peaks :
                    /\ Le(ret.min_peaks[i], ret.max_peaks[i])
                    /\ (i - 1) \notin ret.received =>
                          /\ ret.min_peaks[i] = F64(0)
                          /\ ret.max_peaks[i] = F64(0)

\* Peaks were extracted with one segment that received no sample and another
\* whose minimum is below its maximum.
C21_Witness ==
    /\ call.fn = "extract_waveform_peaks"
    /\ ret.tag = "Ok"
    /\ \E i, j \in 1..call.num_peaks :
          /\ (i - 1) \notin ret.received
          /\ (j - 1) \in ret.received
          /\ Lt(ret.min_peaks[j], ret.max_peaks[j])

\* C22: the decoder reads should_stop and then seek_pending before every push
\* attempt, the first one and each retry; a push into a full buffer writes
\* nothing and leads back to the two reads; a read that finds either flag set
\* pushes nothing more of the block, drops it and returns to the loop head;
\* and nothing but a push attempt makes the buffer grow.
C22_PushLoop ==
    [][/\ (dpc # "push" /\ dpc' = "push") =>
              (dpc = "push_check_seek" /\ ~seek_pending)
       /\ (dpc # "push_check_seek" /\ dpc' = "push_check_seek") =>
              (dpc = "push_check_stop" /\ ~should_stop /\ written < Len(samples))
       /\ (dpc = "push" /\ dpc' # "push") =>
              /\ dpc' = "push_check_stop"
              /\ samples' = samples
              /\ Len(ring) = RING_BUFFER_SIZE => (ring' = ring /\ written' = written)
       /\ (dpc = "push_check_stop" /\ should_stop /\ dpc' # dpc) =>
              (dpc' = "head" /\ ring' = ring /\ samples' = <<>>)
       /\ (dpc = "push_check_seek" /\ seek_pending /\ dpc' # dpc) =>
              (dpc' = "head" /\ ring' = ring /\ samples' = <<>>)
       /\ Len(ring') > Len(ring) => dpc = "push"]_vars

\* The decoder is about to re-read the flags with part of a block written,
\* the buffer full and a flag set.
C22_Witness ==
    /\ dpc = "push_check_stop"
    /\ written > 0
    /\ written < Len(samples)
    /\ Len(ring) = RING_BUFFER_SIZE
    /\ (should_stop \/ seek_pending)

\* The concatenation of the blocks a decode session that never seeks decodes
\* successfully, from frame p on.
RECURSIVE BlocksFrom(_)
BlocksFrom(p) ==
    IF p >= TotalFrames THEN <<>>
    ELSE (IF p \in CorruptFrames THEN <<>> ELSE Block(p, 0, FileChannels))
            \o BlocksFrom(p + PacketFrames)

\* A state of a session in which seek() and stop() have not been called.
NoSeekNoStop == seek_seq = 0 /\ ~should_stop

\* The decoder pushes the next n samples of its block at the tail.
PushesAtTail ==
    /\ dpc = "push"
    /\ \E n \in 0..(Len(samples) - written) :
          /\ ring' = ring \o SubSeq(samples, written + 1, written + n)
          /\ written' = written + n

\* The callback pops the oldest to_read samples, which are the samples of the
\* decoded blocks from the number popped so far on.
PopsInOrder ==
    /\ cpc = "pop"
    /\ SubSeq(data', 1, to_read) = SubSeq(ring, 1, to_read)
    /\ ring' = SubSeq(ring, to_read + 1, Len(ring))
    /\ samples_consumed' = samples_consumed + to_read
    /\ SubSeq(ring, 1, to_read)
          = SubSeq(BlocksFrom(0), samples_consumed + 1, samples_consumed + to_read)

\* C23: in a session with no seek and no stop the ring buffer changes only by
\* a push at its tail or by a pop of its oldest samples, the count of popped
\* samples starts at 0 and changes only by a pop, and each pop yields the
\* samples of the decoded blocks that follow the ones popped before, so that
\* the popped samples are a prefix of the decoded blocks with nothing lost,
\* duplicated or reordered; and the occupied length never exceeds the capacity.
C23_PoppedPrefix ==
    /\ [](Len(ring) <= RING_BUFFER_SIZE)
    /\ [][NoSeekNoStop =>
            /\ ring' # ring =>
                  \/ PushesAtTail
                  \/ PopsInOrder
                  \/ (fpc = "play_ring" /\ ring' = <<>>)
            /\ samples_consumed' # samples_consumed =>
                  \/ PopsInOrder
                  \/ (ppc = "setup" /\ samples_consumed' = 0)]_vars

\* The callback cannot have flushed for the seek requested last: that seek has
\* not been performed on the decode session, or samples decoded before it are
\* still in the ring buffer.
LastSeekNotFlushed ==
    \/ serviced_seq # seek_seq
    \/ \E k \in 1..Len(ring) : ring[k].e # epoch

\* C24: in a session that has not been stopped and whose decoder has landed
\* every seek it performed, from the return of seek() until the callback has
\* flushed for that seek, seek_pending or buffer_flush_pending is true, for
\* any number of seeks.
C24_FlagsCoverSeek ==
    (/\ seek_seq > 0
     /\ fpc # "seek_pending"
     /\ ~should_stop
     /\ seek_frame < TotalFrames
     /\ LastSeekNotFlushed)
        => (seek_pending \/ buffer_flush_pending)

\* C25: after the one seek of a session has been serviced and flushed, the
\* sample the callback is about to pop is the one whose source index is the
\* consumed-sample counter; the first of them is the sample at the landed
\* frame.
C25_CounterIsSourceIndex ==
    (/\ cpc = "pop"
     /\ FirstSession
     /\ seek_seq = 1
     /\ epoch = 1
     /\ ~seek_pending
     /\ ~buffer_flush_pending
     /\ ring[1].e = epoch)
        => ring[1].i = samples_consumed

\* The caller makes one call, a play_file, and none after it; the output
\* stream of the session opens and stays.
OnlyPlays ==
    <>[](calls_left = MaxLiveCalls - 1 /\ f_op = "play" /\ ppc = "loop")

\* C26: when the caller never pauses, seeks or stops, every sample in the ring
\* buffer is eventually taken out of it by the callback, the samples buffered
\* when the decoder reaches the end of the stream included.
C26_BufferedSamplesPlayed ==
    OnlyPlays => ((Len(ring) > 0) ~> (Len(ring) = 0))

\* From some moment on no facade call runs, the session is not stopped and
\* its output stream is open.
NeverStoppedAgain == <>[](fpc = "idle" /\ ~should_stop /\ ppc = "loop")

\* C27: a seek() that no stop() follows is serviced in the end: seek_pending
\* does not stay true for ever.
C27_SeekServiced ==
    NeverStoppedAgain => (seek_pending ~> ~seek_pending)

\* What the decoder leaves alone while it deals with a rejected seek: the
\* position and the flush flag, the ring buffer, its place in the file, the
\* result of the caller's call and the play state.
RejectedSeekLeaves ==
    /\ UNCHANGED <<current_frame, buffer_flush_pending, ring, pos, is_playing,
                   should_stop, f_result, epoch, landed>>

\* C28: when the decode session rejects the seek (the target is outside the
\* stream), the decoder goes straight to the store that clears seek_pending,
\* clears it and goes on to pull the next block, and in these two steps it
\* leaves current_frame, buffer_flush_pending, the ring buffer, its position
\* and the caller's result alone.
C28_RejectedSeek ==
    [][/\ (dpc = "load_seek" /\ dpc' # dpc /\ seek_to_frame >= TotalFrames) =>
              /\ dpc' = "clear_seek"
              /\ seek_pending' = seek_pending
              /\ RejectedSeekLeaves
       /\ (dpc = "clear_seek" /\ dpc' # dpc /\ seek_frame >= TotalFrames) =>
              /\ dpc' = "next_packet"
              /\ ~seek_pending'
              /\ RejectedSeekLeaves]_vars

\* After the one seek of a session was rejected the decoder is pushing a
\* block again, with no flag set and nothing reported.
C28_Witness ==
    /\ FirstSession
    /\ seek_seq = 1
    /\ serviced_seq = 1
    /\ seek_frame >= TotalFrames
    /\ epoch = 0
    /\ dpc = "push"
    /\ ~seek_pending
    /\ ~buffer_flush_pending
    /\ f_result = "Ok"

\* C29: at the end of the stream the decoder stores is_playing = false and
\* ends; in that step it changes neither should_stop nor
\* buffer_flush_pending nor any other shared field nor the ring buffer; an
\* ended decoder never makes the ring buffer grow; and the playback thread
\* leaves its loop only when should_stop is set.
C29_EndOfStream ==
    [][/\ (dpc = "next_packet" /\ dpc' # dpc /\ pos >= TotalFrames) =>
              /\ dpc' = "done"
              /\ ~is_playing'
              /\ UNCHANGED <<should_stop, buffer_flush_pending, seek_pending,
                             seek_to_frame, current_frame, total_frames,
                             sample_rate, channels, ring, ppc>>
       /\ (dpc = "done" /\ dpc' = "done") => Len(ring') <= Len(ring)
       /\ (ppc = "loop" /\ ppc' # "loop") => should_stop]_vars

\* The decoder has ended at the end of the stream with samples still
\* buffered; nothing has been stopped, and the playback thread and its
\* callback go on.
C29_Witness ==
    /\ dpc = "done"
    /\ pos >= TotalFrames
    /\ ~is_playing
    /\ ~should_stop
    /\ ~buffer_flush_pending
    /\ Len(ring) > 0
    /\ ppc = "loop"
    /\ cpc = "returned"
    /\ cb_branch = "paused"

\* C30: when the codec rejects a packet the decoder changes no shared field
\* and not the ring buffer, moves past the packet and returns to the head of
\* its loop; and the samples in the ring buffer that come from one run of
\* decoding are in the order of the source, whatever was skipped.
C30_DecodeErrorSkipped ==
    /\ [](\A k \in 1..(Len(ring) - 1) :
             ring[k].e = ring[k + 1].e => ring[k].i < ring[k + 1].i)
    /\ [][(dpc = "next_packet" /\ dpc' # dpc /\ pos < TotalFrames
                /\ pos \in CorruptFrames) =>
              /\ dpc' = "head"
              /\ pos' = pos + PacketFrames
              /\ UNCHANGED <<shared, ring, samples, written, ppc, f_result>>]_vars

\* With the packet of frame 0 rejected, the session has gone on: the ring
\* buffer is full of the samples of the frames after it, in order, and the
\* decoder is at the last block.
C30_Witness ==
    /\ 0 \in CorruptFrames
    /\ FirstSession
    /\ seek_seq = 0
    /\ pos = TotalFrames
    /\ dpc = "push_check_stop"
    /\ Len(ring) = RING_BUFFER_SIZE
    /\ \A k \in 1..RING_BUFFER_SIZE : ring[k].i = PacketFrames * FileChannels + k - 1

\* The decoder thread of the session has ended and stop() has not been
\* called.
DecoderGone == dpc = "done" /\ decoder_thread = "Some" /\ ~should_stop

\* C31: when the decoder thread of a session ends without stop(), at the end
\* of the stream or on an error of its setup, is_playing becomes false, in a
\* session that is left to itself with its output stream open.
C31_ProducerGoneNotPlaying ==
    NeverStoppedAgain => (DecoderGone ~> ~is_playing)

\* The playback thread of the session has ended in its setup (no output
\* device, or no stream could be built at any candidate rate) and stop() has
\* not been called; the decoder thread of the session is in its loop.
PlaybackFailed ==
    /\ ppc = "done" /\ playback_thread = "Some" /\ ~should_stop
    /\ dpc \notin {"none", "setup", "done"}

\* The facade is left alone from some point on and stop() is not called.
LeftWithoutStop == <>[](fpc = "idle" /\ ~should_stop)

\* C32: when the playback thread of a session ends with an error because the
\* device accepts no candidate rate, the decoder thread stops as well and
\* is_playing becomes false, without a call of stop().
C32_NoRateAborts ==
    LeftWithoutStop => (PlaybackFailed ~> (~is_playing /\ dpc = "done"))

\* C33: whenever no facade call is in progress, is_playing = true implies that
\* the decoder thread and the playback thread of a session are both running.
C33_PlayingOnlyWhileLive ==
    (fpc = "idle" /\ is_playing) => (DecoderAlive /\ PlaybackAlive)

\* C34: an invocation of the callback that has read is_playing = true takes
\* the flush branch exactly when it reads buffer_flush_pending = true; in that
\* branch it reads the occupied length, skips that many samples from the head,
\* sets the consumed-sample counter to current_frame * channels, clears
\* buffer_flush_pending and returns with the whole output buffer zeroed,
\* having copied no sample out of the ring buffer.
C34_FlushBranch ==
    [][/\ (cpc = "check_flush" /\ cpc' # cpc) =>
              (cpc' = "flush_len" <=> buffer_flush_pending)
       /\ (cpc = "flush_len" /\ cpc' # cpc) =>
              (cpc' = "flush_skip" /\ to_skip' = Len(ring) /\ ring' = ring)
       /\ (cpc = "flush_skip" /\ cpc' # cpc) =>
              /\ cpc' = "flush_load"
              /\ to_skip <= Len(ring)
              /\ ring' = SubSeq(ring, to_skip + 1, Len(ring))
       /\ (cpc = "flush_load" /\ cpc' # cpc) =>
              /\ cpc' = "flush_clear"
              /\ samples_consumed' = current_frame * channels
              /\ ring' = ring
       /\ (cpc = "flush_clear" /\ cpc' # cpc) =>
              /\ cpc' = "returned"
              /\ ~buffer_flush_pending'
              /\ data' = Zeros(BufLen)
              /\ ring' = ring
              /\ samples_consumed' = samples_consumed
              /\ current_frame' = current_frame
       /\ (cpc \in FlushPcs /\ cpc' \in FlushPcs) =>
              \A k \in 1..Len(data') : data'[k] = Unwritten]_vars

\* A flush has returned after skipping samples: the counter stands at the
\* landed frame, and the decoder has pushed again behind the skipped samples.
C34_Witness ==
    /\ cpc = "returned"
    /\ cb_branch = "flush"
    /\ data = Zeros(BufLen)
    /\ ~buffer_flush_pending
    /\ samples_consumed > 0
    /\ Len(ring) > 0

\* C35: an invocation of the callback that has read is_playing = true and
\* buffer_flush_pending = false returns from the seek check exactly when it
\* reads seek_pending = true, with the whole output buffer zeroed and the ring
\* buffer, the consumed-sample counter and current_frame as they were.
C35_SeekBranch ==
    [][(cpc = "check_seek" /\ cpc' # cpc) =>
           /\ (cpc' = "returned" <=> seek_pending)
           /\ seek_pending =>
                  /\ cb_branch' = "seek"
                  /\ data' = Zeros(BufLen)
                  /\ ring' = ring
                  /\ samples_consumed' = samples_consumed
                  /\ current_frame' = current_frame
                  /\ consumer_guard' = "None"
           /\ ~seek_pending => cpc' = "pop_len"]_vars

\* The callback has returned from the seek branch with samples in the buffer
\* and a counter that has advanced.
C35_Witness ==
    /\ cpc = "returned"
    /\ cb_branch = "seek"
    /\ data = Zeros(BufLen)
    /\ Len(ring) > 0
    /\ samples_consumed > 0

\* C36: an invocation of the callback that is playing with no flush and no
\* seek pending reads k = min(output length, occupied length); with k = 0 it
\* returns the whole buffer zeroed and leaves the ring buffer, the counter and
\* current_frame alone; with k > 0 it moves the k samples at the head of the
\* ring buffer, in their order, into the first k slots, adds k to the
\* consumed-sample counter, stores current_frame = counter \div channels and
\* returns with the remaining slots zeroed.
C36_PopBranch ==
    [][/\ (cpc = "pop_len" /\ cpc' # cpc) =>
              /\ ring' = ring
              /\ samples_consumed' = samples_consumed
              /\ current_frame' = current_frame
              /\ IF Min(BufLen, Len(ring)) = 0
                 THEN /\ cpc' = "returned"
                      /\ cb_branch' = "underrun"
                      /\ data' = Zeros(BufLen)
                 ELSE /\ cpc' = "pop"
                      /\ to_read' = Min(BufLen, Len(ring))
       /\ (cpc = "pop" /\ cpc' # cpc) =>
              /\ cpc' = "pop_store"
              /\ to_read > 0
              /\ to_read <= Len(ring)
              /\ \A k \in 1..to_read : data'[k] = ring[k]
              /\ ring' = SubSeq(ring, to_read + 1, Len(ring))
              /\ samples_consumed' = samples_consumed + to_read
              /\ current_frame' = current_frame
       /\ (cpc = "pop_store" /\ cpc' # cpc) =>
              /\ cpc' = "returned"
              /\ cb_branch' = "pop"
              /\ current_frame' = samples_consumed \div channels
              /\ samples_consumed' = samples_consumed
              /\ ring' = ring
              /\ \A k \in 1..BufLen :
                     data'[k] = IF k <= to_read THEN data[k] ELSE Silence
              /\ \A k \in 1..to_read : data'[k] \notin {Silence, Unwritten}]_vars

\* The callback has returned after a pop shorter than the output buffer that
\* ended inside a frame: one sample, then silence, and current_frame is the
\* counter divided by the channel count, rounded down.
C36_Witness ==
    /\ cpc = "returned"
    /\ cb_branch = "pop"
    /\ data[1] \notin {Silence, Unwritten}
    /\ data[BufLen] = Silence
    /\ samples_consumed % channels # 0
    /\ current_frame > 0
    /\ current_frame = samples_consumed \div channels

\* The positions in the candidate list of the rates that the device accepts.
AcceptedAt(file_sample_rate, accepted) ==
    {i \in 1..Len(supported_rates(file_sample_rate)) :
        supported_rates(file_sample_rate)[i] \in accepted}

\* C37: for every file rate and every set of rates the device accepts, the
\* output stream is opened at the first rate of [file rate, 48000, 44100,
\* 96000, 22050] that the device accepts, which is the file's own rate
\* whenever the device accepts it; no stream is opened, and the thread ends
\* with an error, when the device accepts none of them.
C37_FirstAcceptedRate ==
    (call.fn = "run_playback_stream" /\ ret.tag # "pending") =>
        LET r == call.file_sample_rate
            at == AcceptedAt(r, call.accepted)
        IN  IF at = {}
            THEN ret.tag = "DecodeFailed"
            ELSE /\ ret.tag = "Ok"
                 /\ \E i \in at :
                        /\ \A j \in at : i <= j
                        /\ ret.rate = supported_rates(r)[i]
                 /\ r \in call.accepted => ret.rate = r

\* A 24 kHz file on a device that takes 44.1 kHz and 96 kHz but neither
\* 24 kHz nor 48 kHz: the stream is opened at 44.1 kHz.
C37_Witness ==
    /\ call.fn = "run_playback_stream"
    /\ call.file_sample_rate = 24000
    /\ call.accepted = {44100, 96000}
    /\ ret.tag = "Ok"
    /\ ret.rate = 44100

\* C38: with a ring buffer whose capacity is a multiple of the channel count,
\* blocks of whole frames and an output buffer of whole frames, the occupied
\* length of the ring buffer is a multiple of the channel count and the sample
\* at its head is channel 0 of a frame, in every state: after every push, pop
\* and flush, a seek that lands part-way through a block included.
C38_FramesAligned ==
    (AlignedCapacity % channels = 0 /\ BufLen % channels = 0) =>
        /\ Len(ring) % channels = 0
        /\ Len(ring) > 0 => ring[1].i % channels = 0

\* A seek has landed while the decoder was part-way through a block of two
\* frames: the last sample in the buffer ends the first frame of that block,
\* the rest of the block was dropped, and the buffer starts on channel 0.
C38_Witness ==
    /\ dpc = "store_current"
    /\ samples = <<>>
    /\ Len(ring) > 0
    /\ ring[Len(ring)].i = FileChannels - 1
    /\ ring[1].i % channels = 0

\* Who takes a step: the decoder thread and the callback change their own
\* position with every step, the facade changes neither.
ByDecoder == DecoderAlive /\ dpc' # dpc
ByCallback == cpc' # cpc
ByFacade == dpc' = dpc /\ cpc' = cpc /\ ppc' = ppc

\* The writers of the flags while threads of a session are running: the
\* facade changes is_playing, should_stop and seek_to_frame and sets
\* seek_pending; the decoder sets buffer_flush_pending, clears seek_pending
\* and clears is_playing when it finds the end of the stream; the callback
\* clears buffer_flush_pending.
FlagWriters ==
    /\ is_playing' # is_playing =>
           (ByFacade \/ (ByDecoder /\ dpc = "next_packet" /\ ~is_playing'))
    /\ should_stop' # should_stop => ByFacade
    /\ seek_to_frame' # seek_to_frame => ByFacade
    /\ (seek_pending' /\ ~seek_pending) => ByFacade
    /\ (~seek_pending' /\ seek_pending) => (ByDecoder /\ dpc = "clear_seek")
    /\ (buffer_flush_pending' /\ ~buffer_flush_pending) =>
           (ByDecoder /\ dpc = "store_flush")
    /\ (~buffer_flush_pending' /\ buffer_flush_pending) =>
           (ByCallback /\ cpc = "flush_clear")

\* C39 as stated: while threads of a session are running every shared field
\* is changed by its designated writer only, and current_frame by the
\* playback callback only.
C39_DesignatedWriters ==
    [][SessionAlive =>
           /\ FlagWriters
           /\ current_frame' # current_frame => ByCallback]_vars

\* C39, amended: while threads of a session are running every flag is changed
\* by its designated writer only, and current_frame is changed by the
\* playback callback when it has popped samples and by the decoder when a
\* seek has landed.
C39_WritersWithSeek ==
    [][SessionAlive =>
           /\ FlagWriters
           /\ current_frame' # current_frame =>
                  \/ ByCallback /\ cpc = "pop_store"
                  \/ ByDecoder /\ dpc = "store_current"]_vars

\* The decoder has stored the frame a seek landed on, while the stream is
\* open and the callback's counter stands at another frame.
C39_Witness ==
    /\ dpc = "store_flush"
    /\ ppc = "loop"
    /\ current_frame = landed
    /\ current_frame # samples_consumed \div channels

====
